---- MODULE Spec2Model ----
(***************************************************************************)
(* A model of the OpenTelemetry collector configuration playground:        *)
(* parseOTelConfig (document loading, component and pipeline extraction,   *)
(* cross-reference validation) and generateFlowElements (graph building).  *)
(***************************************************************************)
EXTENDS Integers, Sequences, FiniteSets, TLC

VARIABLES
    input,        \* the argument handed to parseOTelConfig
    pc,           \* "start", "parsed", "raised", "built"
    result,       \* the ParseResult returned by parseOTelConfig
    graph,        \* { nodes, edges } of the latest generateFlowElements call
    prevGraph,    \* { nodes, edges } of the call before it
    edgeCounter,  \* value of edgeCounter when the latest call returned
    calls,        \* number of generateFlowElements calls on this result
    api,          \* how the validation request of the hook was answered
    binaryResult, \* the BinaryValidationResult the hook's validateWithBinary returned
    merged,       \* the ParseResult the hook's validateConfig returned
    reading,      \* the Home page: the files whose FileReader has not fired onload yet
    requests,     \* the hook: the validateWithBinary calls so far, in the order they started
    isValidating  \* the hook: its isValidating state

vars == <<input, pc, result, graph, prevGraph, edgeCounter, calls, api, binaryResult, merged,
          reading, requests, isValidating>>

-----------------------------------------------------------------------------
(* Bounds of the explored inputs *)

MaxRefs == 2           \* references of a document, over all its pipelines (validation inputs)
MaxGraphRefs == 3      \* references of a document, over all its pipelines (graph inputs)
MaxSyntaxErrors == 2   \* errors the YAML parser reports for one text
MaxCalls == 2          \* generateFlowElements calls on one ParseResult
MaxServerRefs == 2     \* references of a document, over all its pipelines (server requests)
MaxOutputLines == 1    \* lines of output a failed otelcol run leaves
MaxReading == 1        \* file reads of the Home page in flight at once
MaxRequests == 2       \* validateWithBinary calls on one mounted hook

-----------------------------------------------------------------------------
(* Generic sequence helpers *)

Range(s) == { s[i] : i \in DOMAIN s }

RECURSIVE Flatten(_)
Flatten(ss) == IF ss = <<>> THEN <<>> ELSE Head(ss) \o Flatten(Tail(ss))

SelectIdx(s, Test(_)) ==
    LET RECURSIVE Go(_)
        Go(i) == IF i > Len(s) THEN <<>>
                 ELSE (IF Test(i) THEN <<s[i]>> ELSE <<>>) \o Go(i + 1)
    IN Go(1)

\* first index of x in s, 0 when absent (Array.prototype.indexOf, 1-based)
IndexOf(s, x) ==
    IF \E i \in DOMAIN s : s[i] = x
    THEN CHOOSE i \in DOMAIN s : s[i] = x /\ \A j \in 1..(i - 1) : s[j] # x
    ELSE 0

Count(s, Test(_)) == Cardinality({ i \in DOMAIN s : Test(s[i]) })

\* the element of a singleton set: { e(x) : x \in {v} } computes v once and names it x
Only(S) == CHOOSE x \in S : TRUE

-----------------------------------------------------------------------------
(* Message text.  A message is a sequence of tokens; a quoted token is an  *)
(* interpolated identifier between double quotes, the rest is fixed text.  *)

Q(s) == [q |-> TRUE, t |-> s]
T(s) == [q |-> FALSE, t |-> s]

\* message.includes(`"${name}"`)
Includes(message, name) == \E i \in DOMAIN message : message[i] = Q(name)

NoLine == 0
NoPath == ""

-----------------------------------------------------------------------------
(* The decoded document.  A document that decodes to a mapping is a record *)
(* of its six top-level sections.  The text is written in block layout,   *)
(* one key per line, sections in the order receivers, processors,          *)
(* exporters, connectors, extensions, service.                             *)

Absent == [kind |-> "absent", keys |-> <<>>]
MapOf(keys) == [kind |-> "map", keys |-> keys]
SeqOf(items) == [kind |-> "seq", keys |-> items]
NullValue == [kind |-> "null", keys |-> <<>>]
ScalarValue == [kind |-> "scalar", keys |-> <<>>]

NoPipelines == [kind |-> "absent", items |-> <<>>]
NoService == [kind |-> "absent", pipelines |-> NoPipelines, extensions |-> Absent]

SectionNames == <<"receivers", "processors", "exporters", "connectors", "extensions">>

\* JavaScript truthiness of a decoded value
Truthy(v) == v.kind \in {"map", "seq", "scalar"}

\* typeof v === 'object' for a truthy value
IsObject(v) == v.kind \in {"map", "seq"}

\* Object.entries(v): own keys of a mapping, index keys of an array
EntryKeys(v) ==
    CASE v.kind = "map" -> v.keys
      [] v.kind = "seq" -> [i \in DOMAIN v.keys |-> ToString(i - 1)]
      [] OTHER -> <<>>

(* The YAML node tree: a collection node has items; an item of a mapping   *)
(* is a pair with a key token (at a line) and a value node.                *)

Leaf == [hasItems |-> FALSE, items |-> <<>>]
Pair(key, line, value) == [hasKey |-> TRUE, key |-> key, line |-> line, value |-> value]
Elem(line) == [hasKey |-> FALSE, key |-> "", line |-> line, value |-> Leaf]
Coll(items) == [hasItems |-> TRUE, items |-> items]

\* number of text lines a value takes below its key's line
ValueLines(v) == IF v.kind \in {"map", "seq"} THEN Len(v.keys) ELSE 0

ValueNode(v, keyLine) ==
    CASE v.kind = "map" -> Coll([i \in DOMAIN v.keys |-> Pair(v.keys[i], keyLine + i, Leaf)])
      [] v.kind = "seq" -> Coll([i \in DOMAIN v.keys |-> Elem(keyLine + i)])
      [] OTHER -> Leaf

ListLines(p) ==
    (IF p.receivers.kind = "absent" THEN 0 ELSE 1)
    + (IF p.processors.kind = "absent" THEN 0 ELSE 1)
    + (IF p.exporters.kind = "absent" THEN 0 ELSE 1)

RECURSIVE PipelinesLines(_)
PipelinesLines(ps) ==
    IF ps = <<>> THEN 0 ELSE 1 + ListLines(Head(ps)) + PipelinesLines(Tail(ps))

PipelineNode(p, keyLine) ==
    IF p.kind # "map" THEN Leaf ELSE
    LET r == IF p.receivers.kind = "absent" THEN <<>>
             ELSE <<Pair("receivers", keyLine + 1, Coll(<<>>))>>
        c == IF p.processors.kind = "absent" THEN <<>>
             ELSE <<Pair("processors", keyLine + 1 + Len(r), Coll(<<>>))>>
        e == IF p.exporters.kind = "absent" THEN <<>>
             ELSE <<Pair("exporters", keyLine + 1 + Len(r) + Len(c), Coll(<<>>))>>
    IN Coll(r \o c \o e)

PipelinesNode(pl, keyLine) ==
    IF pl.kind = "seq" THEN Coll([i \in DOMAIN pl.items |-> Elem(keyLine + i)])
    ELSE IF pl.kind # "map" THEN Leaf
    ELSE Coll([i \in DOMAIN pl.items |->
                 LET line == keyLine + 1 + PipelinesLines(SubSeq(pl.items, 1, i - 1))
                 IN Pair(pl.items[i].name, line, PipelineNode(pl.items[i], line))])

ServiceNode(sv, keyLine) ==
    IF sv.kind # "map" THEN Leaf
    ELSE LET x == IF sv.extensions.kind = "absent" THEN <<>>
                  ELSE <<Pair("extensions", keyLine + 1, Coll(<<>>))>>
             p == IF sv.pipelines.kind = "absent" THEN <<>>
                  ELSE <<Pair("pipelines", keyLine + 1 + Len(x),
                              PipelinesNode(sv.pipelines, keyLine + 1 + Len(x)))>>
         IN Coll(x \o p)

\* doc.contents of YAML.parseDocument for a document that decodes to a mapping
DocContents(config) ==
    LET RECURSIVE Sections(_, _)
        Sections(i, line) ==
            IF i > Len(SectionNames)
            THEN IF config.service.kind = "absent" THEN <<>>
                 ELSE <<Pair("service", line, ServiceNode(config.service, line))>>
            ELSE LET v == config[SectionNames[i]]
                 IN IF v.kind = "absent" THEN Sections(i + 1, line)
                    ELSE <<Pair(SectionNames[i], line, ValueNode(v, line))>>
                         \o Sections(i + 1, line + 1 + ValueLines(v))
    IN Coll(Sections(1, 1))

(* The text of the document.  YAML.parseDocument records for every key     *)
(* token its offset in the text it was given; doc.toString() writes the    *)
(* document anew, every nesting level indented by two spaces.  A line of   *)
(* the text is the nesting depth of its first token and the width of what  *)
(* follows the indentation.                                                *)

Line(depth, width) == [depth |-> depth, width |-> width]

RECURSIVE SumLen(_)
SumLen(keys) == IF keys = <<>> THEN 0 ELSE Len(Head(keys)) + SumLen(Tail(keys))

\* the width of a value written on the line of its key: " [a, b]", " {}", " 5", nothing
InlineWidth(v) ==
    CASE v.kind = "seq" -> 3 + SumLen(v.keys) + (IF Len(v.keys) > 1 THEN 2 * (Len(v.keys) - 1) ELSE 0)
      [] v.kind = "map" -> 3
      [] v.kind = "scalar" -> 2
      [] OTHER -> 0

\* the lines of a top-level section: its key, then one line per entry
SectionText(name, v) ==
    IF v.kind \in {"map", "seq"} /\ v.keys # <<>>
    THEN <<Line(0, Len(name) + 1)>>
         \o [i \in DOMAIN v.keys |-> Line(1, Len(v.keys[i]) + (IF v.kind = "map" THEN 4 ELSE 2))]
    ELSE <<Line(0, Len(name) + 1 + InlineWidth(v))>>

\* the lines of one pipeline: its key, then its lists in flow style
PipelineText(p) ==
    <<Line(2, Len(p.name) + 1)>>
    \o (IF p.receivers.kind = "absent" THEN <<>> ELSE <<Line(3, 10 + InlineWidth(p.receivers))>>)
    \o (IF p.processors.kind = "absent" THEN <<>> ELSE <<Line(3, 11 + InlineWidth(p.processors))>>)
    \o (IF p.exporters.kind = "absent" THEN <<>> ELSE <<Line(3, 10 + InlineWidth(p.exporters))>>)

RECURSIVE PipelinesText(_)
PipelinesText(ps) ==
    IF ps = <<>> THEN <<>> ELSE PipelineText(Head(ps)) \o PipelinesText(Tail(ps))

ServiceText(sv) ==
    IF sv.kind # "map" THEN <<Line(0, 8 + InlineWidth([kind |-> sv.kind, keys |-> <<>>]))>>
    ELSE <<Line(0, 8)>>
         \o (IF sv.extensions.kind = "absent" THEN <<>>
             ELSE <<Line(1, 11 + InlineWidth(sv.extensions))>>)
         \o (CASE sv.pipelines.kind = "absent" -> <<>>
               [] sv.pipelines.kind = "map" ->
                    <<Line(1, 10 + (IF sv.pipelines.items = <<>> THEN 3 ELSE 0))>>
                    \o PipelinesText(sv.pipelines.items)
               [] sv.pipelines.kind = "seq" ->
                    <<Line(1, 10 + (IF sv.pipelines.items = <<>> THEN 3 ELSE 0))>>
                    \o [i \in DOMAIN sv.pipelines.items |-> Line(2, 19)]
               [] OTHER -> <<Line(1, 10 + InlineWidth([kind |-> sv.pipelines.kind, keys |-> <<>>]))>>)

\* the lines of the text of a document that decodes to a mapping
DocText(config) ==
    LET RECURSIVE Sections(_)
        Sections(i) ==
            IF i > Len(SectionNames)
            THEN IF config.service.kind = "absent" THEN <<>> ELSE ServiceText(config.service)
            ELSE (IF config[SectionNames[i]].kind = "absent" THEN <<>>
                  ELSE SectionText(SectionNames[i], config[SectionNames[i]]))
                 \o Sections(i + 1)
    IN Sections(1)

\* range[0] of the token that starts a line: its offset in the text as given,
\* written with indent spaces per nesting level
RECURSIVE TokenOffset(_, _, _)
TokenOffset(text, indent, line) ==
    IF line = 1 THEN text[1].depth * indent
    ELSE TokenOffset(text, indent, line - 1) - text[line - 1].depth * indent
         + (text[line - 1].depth * indent + text[line - 1].width + 1)
         + text[line].depth * indent

\* doc.toString().substring(0, offset).split('\n').length: the line of the
\* rewritten text (two spaces per level) that holds the offset
RECURSIVE RewrittenLineAt(_, _, _, _)
RewrittenLineAt(text, offset, m, start) ==
    IF m > Len(text) THEN Len(text) + 1
    ELSE IF offset < start + 2 * text[m].depth + text[m].width + 1 THEN m
    ELSE RewrittenLineAt(text, offset, m + 1, start + 2 * text[m].depth + text[m].width + 1)

\* the line getLineNumber computes for a key token that stands on a line of the text
LineOfOffset(doc, line) ==
    IF line < 1 \/ line > Len(doc.text) THEN line
    ELSE Only({ RewrittenLineAt(doc.text, offset, 1, 0) :
                offset \in { TokenOffset(doc.text, doc.indent, line) } })

\* YAML.parseDocument(yamlContent): the node tree, the text and its indentation
Document(in) ==
    IF in.kind = "mapping"
    THEN [hasItems |-> TRUE, items |-> DocContents(in.config).items,
          text |-> DocText(in.config), indent |-> in.indent]
    ELSE [hasItems |-> FALSE, items |-> <<>>, text |-> <<>>, indent |-> in.indent]

-----------------------------------------------------------------------------
(* otel-parser: names, locations, extraction *)

\* fullName.split('/'): the one identifier with a slash among those explored is "metrics/2"
Split(fullName) == IF fullName = "metrics/2" THEN <<"metrics", "2">> ELSE <<fullName>>

RECURSIVE JoinSlash(_)
JoinSlash(parts) ==
    IF Len(parts) = 1 THEN parts[1] ELSE parts[1] \o "/" \o JoinSlash(Tail(parts))

parseComponentName(fullName) ==
    LET parts == Split(fullName)
    IN [type |-> parts[1],
        name |-> IF Len(parts) > 1 THEN JoinSlash(Tail(parts)) ELSE parts[1]]

getLineNumber(doc, path) ==
    LET RECURSIVE Walk(_, _)
        Walk(node, i) ==
            IF i > Len(path) THEN NoLine
            ELSE IF node.hasItems
                 THEN LET hits == { k \in DOMAIN node.items :
                                      node.items[k].hasKey /\ node.items[k].key = path[i] }
                      IN IF hits = {} THEN NoLine
                         ELSE Only({ IF IndexOf(path, path[i]) = Len(path)
                                     THEN LineOfOffset(doc, pair.line)
                                     ELSE Walk(pair.value, i + 1) :
                                     pair \in { node.items[CHOOSE k \in hits : \A j \in hits : k <= j] } })
                 ELSE Walk(node, i + 1)
    IN Walk(doc, 1)

extractComponents(section, type, contents, sectionName) ==
    IF ~Truthy(section) \/ ~IsObject(section) THEN <<>>
    ELSE LET keys == EntryKeys(section)
         IN [i \in DOMAIN keys |->
               [id |-> type \o "-" \o keys[i],
                type |-> type,
                name |-> parseComponentName(keys[i]).type,
                fullName |-> keys[i],
                config |-> sectionName \o "." \o keys[i],
                lineNumber |-> getLineNumber(contents, <<sectionName, keys[i]>>)]]

\* Array.isArray(v) ? v.map(String) : []
StringList(v) == IF v.kind = "seq" THEN v.keys ELSE <<>>

\* Object.entries(pipelines): the keys of a mapping, the indices of an array
PipelineKeys(pipelines) ==
    [i \in DOMAIN pipelines.items |->
       IF pipelines.kind = "map" THEN pipelines.items[i].name ELSE ToString(i - 1)]

extractPipelines(service, contents) ==
    IF ~Truthy(service) \/ ~IsObject(service) THEN <<>>
    ELSE IF ~Truthy(service.pipelines) \/ ~IsObject(service.pipelines) THEN <<>>
    ELSE LET items == service.pipelines.items
             fullName == PipelineKeys(service.pipelines)
         IN [i \in DOMAIN items |->
               [id |-> "pipeline-" \o fullName[i],
                name |-> fullName[i],
                type |-> Split(fullName[i])[1],
                receivers |-> StringList(items[i].receivers),
                processors |-> StringList(items[i].processors),
                exporters |-> StringList(items[i].exporters),
                lineNumber |-> getLineNumber(contents, <<"service", "pipelines", fullName[i]>>)]]

-----------------------------------------------------------------------------
(* otel-parser: validateConfig *)

Diag(message, severity, line, path) ==
    [message |-> message, severity |-> severity, line |-> line, column |-> NoLine, path |-> path]

FullNames(components) == { components[i].fullName : i \in DOMAIN components }

\* errors pushed for one reference list of one pipeline
UndefinedRefs(pipeline, refs, known, kind) ==
    LET bad == SelectIdx(refs, LAMBDA i : refs[i] \notin known)
    IN [i \in DOMAIN bad |->
          Diag(<<T("Pipeline "), Q(pipeline.name), T(" references undefined " \o kind \o " "), Q(bad[i])>>,
               "error", pipeline.lineNumber,
               "service.pipelines." \o pipeline.name \o "." \o kind \o "s")]

EmptyListWarning(pipeline, refs, kind) ==
    IF Len(refs) = 0
    THEN <<Diag(<<T("Pipeline "), Q(pipeline.name), T(" has no " \o kind \o "s defined")>>,
                "warning", pipeline.lineNumber, NoPath)>>
    ELSE <<>>

\* Mutation for C11: the empty-list warnings of a pipeline pushed before its reference errors
PipelineDiagsWarningsFirst(pipeline, receiverNames, processorNames, exporterNames) ==
    EmptyListWarning(pipeline, pipeline.receivers, "receiver")
    \o EmptyListWarning(pipeline, pipeline.exporters, "exporter")
    \o UndefinedRefs(pipeline, pipeline.receivers, receiverNames, "receiver")
    \o UndefinedRefs(pipeline, pipeline.processors, processorNames, "processor")
    \o UndefinedRefs(pipeline, pipeline.exporters, exporterNames, "exporter")

PipelineDiags(pipeline, receiverNames, processorNames, exporterNames) ==
    UndefinedRefs(pipeline, pipeline.receivers, receiverNames, "receiver")
    \o UndefinedRefs(pipeline, pipeline.processors, processorNames, "processor")
    \o UndefinedRefs(pipeline, pipeline.exporters, exporterNames, "exporter")
    \o EmptyListWarning(pipeline, pipeline.receivers, "receiver")
    \o EmptyListWarning(pipeline, pipeline.exporters, "exporter")

\* Mutation for C7: the unused pass without its used-set test
UnusedWarningsUnchecked(components, used, Kind, section) ==
    [i \in DOMAIN components |->
       Diag(<<T(Kind \o " "), Q(components[i].fullName), T(" is defined but not used in any pipeline")>>,
            "warning", components[i].lineNumber, section \o "." \o components[i].fullName)]

UnusedWarnings(components, used, Kind, section) ==
    LET un == SelectIdx(components, LAMBDA i : components[i].fullName \notin used)
    IN [i \in DOMAIN un |->
          Diag(<<T(Kind \o " "), Q(un[i].fullName), T(" is defined but not used in any pipeline")>>,
               "warning", un[i].lineNumber, section \o "." \o un[i].fullName)]

ExtensionDiags(enabledExtensions, extensionNames, contents) ==
    LET bad == SelectIdx(enabledExtensions, LAMBDA i : enabledExtensions[i] \notin extensionNames)
    IN [i \in DOMAIN bad |->
          Diag(<<T("Service references undefined extension "), Q(bad[i])>>,
               "error", getLineNumber(contents, <<"service", "extensions">>), "service.extensions")]

\* Mutation for C14: the not-enabled pass without its enabled-list test
NotEnabledWarningsUnchecked(extensions, enabledExtensions) ==
    [i \in DOMAIN extensions |->
       Diag(<<T("Extension "), Q(extensions[i].fullName), T(" is defined but not enabled in service.extensions")>>,
            "warning", extensions[i].lineNumber, "extensions." \o extensions[i].fullName)]

NotEnabledWarnings(extensions, enabledExtensions) ==
    LET un == SelectIdx(extensions, LAMBDA i : extensions[i].fullName \notin Range(enabledExtensions))
    IN [i \in DOMAIN un |->
          Diag(<<T("Extension "), Q(un[i].fullName), T(" is defined but not enabled in service.extensions")>>,
               "warning", un[i].lineNumber, "extensions." \o un[i].fullName)]

MissingService == Diag(<<T("Missing required "), Q("service"), T(" section")>>, "error", NoLine, NoPath)

MissingPipelines(contents) ==
    Diag(<<T("Missing required "), Q("service.pipelines"), T(" section")>>,
         "error", getLineNumber(contents, <<"service">>), NoPath)

\* the early return of the service check
ServiceCheckReturns(config) == ~Truthy(config.service)

\* Mutation for C4: the valid receiver sources without the connector catalog
ReceiverNamesWithoutConnectors(receivers, connectors) == FullNames(receivers)

ReceiverNames(receivers, connectors) == FullNames(receivers) \cup FullNames(connectors)
ProcessorNames(processors) == FullNames(processors)
ExporterNames(exporters, connectors) == FullNames(exporters) \cup FullNames(connectors)

\* new Set(pipelines.flatMap(p => p.receivers)), and so for processors and exporters
UsedReceivers(pipelines) == UNION { Range(pipelines[i].receivers) : i \in DOMAIN pipelines }
\* Mutation for C6: the used processors taken from all three lists of the pipelines
UsedInAnyList(pipelines) ==
    UNION { Range(pipelines[i].receivers) \cup Range(pipelines[i].processors)
              \cup Range(pipelines[i].exporters) : i \in DOMAIN pipelines }

UsedProcessors(pipelines) == UNION { Range(pipelines[i].processors) : i \in DOMAIN pipelines }
UsedExporters(pipelines) == UNION { Range(pipelines[i].exporters) : i \in DOMAIN pipelines }

validateConfig(config, receivers, processors, exporters, connectors, extensions, pipelines, enabledExtensions, contents) ==
    IF ServiceCheckReturns(config) THEN <<MissingService>>
    ELSE
      LET receiverNames == ReceiverNames(receivers, connectors)
          processorNames == ProcessorNames(processors)
          exporterNames == ExporterNames(exporters, connectors)
          extensionNames == FullNames(extensions)
          usedReceivers == UsedReceivers(pipelines)
          usedProcessors == UsedProcessors(pipelines)
          usedExporters == UsedExporters(pipelines)
      IN (IF ~Truthy(config.service.pipelines) THEN <<MissingPipelines(contents)>> ELSE <<>>)
         \o Flatten([i \in DOMAIN pipelines |->
                       PipelineDiags(pipelines[i], receiverNames, processorNames, exporterNames)])
         \o ExtensionDiags(enabledExtensions, extensionNames, contents)
         \o UnusedWarnings(receivers, usedReceivers, "Receiver", "receivers")
         \o UnusedWarnings(processors, usedProcessors, "Processor", "processors")
         \o UnusedWarnings(exporters, usedExporters, "Exporter", "exporters")
         \o NotEnabledWarnings(extensions, enabledExtensions)

-----------------------------------------------------------------------------
(* otel-parser: parseOTelConfig *)

EmptyConfig ==
    [receivers |-> Absent, processors |-> Absent, exporters |-> Absent,
     connectors |-> Absent, extensions |-> Absent, service |-> NoService]

EmptyResult ==
    [receivers |-> <<>>, processors |-> <<>>, exporters |-> <<>>, connectors |-> <<>>,
     extensions |-> <<>>, pipelines |-> <<>>, enabledExtensions |-> <<>>,
     errors |-> <<>>, isValid |-> FALSE, rawConfig |-> "null"]

Returned(r) == [raised |-> FALSE, value |-> r]
Raised == [raised |-> TRUE, value |-> EmptyResult]

\* yamlContent.trim() is a call on the argument: it throws unless the argument is a string
TrimRaises(in) == in.kind = "nonstring"

\* Mutation for C9: the emptiness test without trim()
IsBlankWithoutTrim(in) == in.kind = "empty"

\* !yamlContent.trim()
IsBlank(in) == in.kind \in {"empty", "blank"}

\* Mutation for C12: only the first reported parser error becomes a diagnostic
SyntaxDiagsFirstOnly(in) ==
    <<[message |-> <<T("yaml error 1")>>, severity |-> "error", line |-> 1, column |-> 1, path |-> NoPath]>>

\* doc.errors of YAML.parseDocument, one diagnostic per reported error
SyntaxDiags(in) ==
    [i \in 1..in.nerr |->
       [message |-> <<T("yaml error " \o ToString(i))>>, severity |-> "error",
        line |-> i, column |-> 1, path |-> NoPath]]

\* config.receivers, the first property read of the decoded document, throws on null
ConfigReadRaises(in) == in.kind = "null"

EnabledExtensions(service) ==
    IF Truthy(service) /\ IsObject(service) /\ service.extensions.kind = "seq"
    THEN service.extensions.keys ELSE <<>>

\* Mutation for C2: validity requires an empty diagnostics list, warnings included
IsValidOfNoDiagnostics(errors) == Len(errors) = 0

IsValidOf(errors) == Count(errors, LAMBDA e : e.severity = "error") = 0

\* lines 895-910: validate the extracted catalogs and pipelines, set isValid
Validated(in, contents, r, p, e, c, x, pl, en) ==
    Only({ [receivers |-> r, processors |-> p, exporters |-> e, connectors |-> c,
            extensions |-> x, pipelines |-> pl, enabledExtensions |-> en, errors |-> errors,
            isValid |-> IsValidOf(errors), rawConfig |-> in.kind] :
           errors \in { validateConfig(in.config, r, p, e, c, x, pl, en, contents) } })

\* lines 847-893: extract the five catalogs, the pipelines and the enabled extensions
Extracted(in, contents) ==
    Only({ Validated(in, contents, r, p, e, c, x, pl, en) :
           r \in { extractComponents(in.config.receivers, "receiver", contents, "receivers") },
           p \in { extractComponents(in.config.processors, "processor", contents, "processors") },
           e \in { extractComponents(in.config.exporters, "exporter", contents, "exporters") },
           c \in { extractComponents(in.config.connectors, "connector", contents, "connectors") },
           x \in { extractComponents(in.config.extensions, "extension", contents, "extensions") },
           pl \in { extractPipelines(in.config.service, contents) },
           en \in { EnabledExtensions(in.config.service) } })

parseOTelConfig(in) ==
    IF TrimRaises(in) THEN Raised
    ELSE IF IsBlank(in)
    THEN Returned([EmptyResult EXCEPT
                     !.errors = <<Diag(<<T("Configuration is empty")>>, "error", NoLine, NoPath)>>])
    ELSE IF in.kind = "syntax"
    THEN Returned([EmptyResult EXCEPT !.errors = SyntaxDiags(in)])
    ELSE IF in.kind = "throws"
    THEN Returned([EmptyResult EXCEPT
                     !.errors = <<Diag(<<T("YAML parsing error: "), T("toJS")>>, "error", NoLine, NoPath)>>])
    ELSE IF ConfigReadRaises(in) THEN Raised
    ELSE Returned(Only({ Extracted(in, contents) :
                         contents \in { Document(in) } }))

-----------------------------------------------------------------------------
(* PipelineVisualization: generateFlowElements *)

PIPELINE_SPACING == 180
NODE_SPACING_X == 200
LABEL_OFFSET_Y == -40
START_X == 50
START_Y == 100

NoNode == ""
Undefined == "undefined"

isConnector(name, connectors) == \E i \in DOMAIN connectors : connectors[i].fullName = name

\* components.find(c => c.fullName === name)?.config
ConfigOf(components, name) ==
    LET hits == { i \in DOMAIN components : components[i].fullName = name }
    IN IF hits = {} THEN Undefined
       ELSE components[CHOOSE i \in hits : \A j \in hits : i <= j].config

\* a || b on configs: a component's config is always an object, hence truthy
OrConfig(a, b) == IF a # Undefined THEN a ELSE b

ErrorPaths(errors) == { errors[i].path : i \in DOMAIN errors } \ {NoPath}

\* Mutation for C23: the messages of the diagnostics never consulted
MessageNamesIgnored(errors, name) == FALSE

\* errors.some(e => e.message.includes(`"${name}"`))
MessageNames(errors, name) == \E i \in DOMAIN errors : Includes(errors[i].message, name)

LabelNode(id, x, y, label, pipelineType) ==
    [id |-> id, type |-> "pipelineLabel", x |-> x, y |-> y, label |-> label,
     componentType |-> "label", pipelineType |-> pipelineType, hasError |-> FALSE,
     config |-> Undefined, isConnector |-> FALSE, isActive |-> FALSE]

CompNode(id, x, y, name, componentType, hasError, config, isConn, isActive) ==
    [id |-> id, type |-> "pipeline", x |-> x, y |-> y, label |-> name,
     componentType |-> componentType, pipelineType |-> "", hasError |-> hasError,
     config |-> config, isConnector |-> isConn, isActive |-> isActive]

Edge(counter, source, target, stroke) ==
    [id |-> "edge-" \o ToString(counter) \o "-" \o source \o "-" \o target,
     source |-> source, target |-> target, stroke |-> stroke, dashed |-> FALSE, label |-> ""]

ConnectorEdge(counter, connectorName, exp, rec) ==
    [id |-> "edge-" \o ToString(counter) \o "-connector-" \o connectorName \o "-"
              \o exp.pipelineId \o "-" \o rec.pipelineId,
     source |-> exp.nodeId, target |-> rec.nodeId, stroke |-> "#f59e0b", dashed |-> TRUE,
     label |-> connectorName]

ReceiverNodeId(pipeline, name) == pipeline.id \o "-receiver-" \o name
ProcessorNodeId(pipeline, name) == pipeline.id \o "-processor-" \o name
ExporterNodeId(pipeline, name) == pipeline.id \o "-exporter-" \o name

ReceiverNodes(pr, pipeline, baseY) ==
    [k \in DOMAIN pipeline.receivers |->
       LET name == pipeline.receivers[k]
           isConn == isConnector(name, pr.connectors)
       IN CompNode(ReceiverNodeId(pipeline, name), START_X + (k - 1) * NODE_SPACING_X, baseY, name,
                   IF isConn THEN "connector" ELSE "receiver",
                   ("receivers." \o name) \in ErrorPaths(pr.errors)
                     \/ ("connectors." \o name) \in ErrorPaths(pr.errors)
                     \/ MessageNames(pr.errors, name),
                   OrConfig(ConfigOf(pr.connectors, name), ConfigOf(pr.receivers, name)),
                   isConn, FALSE)]

ProcessorNodes(pr, pipeline, baseY) ==
    [k \in DOMAIN pipeline.processors |->
       LET name == pipeline.processors[k]
       IN CompNode(ProcessorNodeId(pipeline, name),
                   START_X + (Len(pipeline.receivers) + k - 1) * NODE_SPACING_X, baseY, name,
                   "processor",
                   ("processors." \o name) \in ErrorPaths(pr.errors) \/ MessageNames(pr.errors, name),
                   ConfigOf(pr.processors, name), FALSE, FALSE)]

ExporterNodes(pr, pipeline, baseY) ==
    [k \in DOMAIN pipeline.exporters |->
       LET name == pipeline.exporters[k]
           isConn == isConnector(name, pr.connectors)
       IN CompNode(ExporterNodeId(pipeline, name),
                   START_X + (Len(pipeline.receivers) + Len(pipeline.processors) + k - 1) * NODE_SPACING_X,
                   baseY, name,
                   IF isConn THEN "connector" ELSE "exporter",
                   ("exporters." \o name) \in ErrorPaths(pr.errors)
                     \/ ("connectors." \o name) \in ErrorPaths(pr.errors)
                     \/ MessageNames(pr.errors, name),
                   OrConfig(ConfigOf(pr.connectors, name), ConfigOf(pr.exporters, name)),
                   isConn, FALSE)]

\* the edges pushed while the processor and exporter nodes are added: prevNodeId -> node
RECURSIVE ChainEdges(_, _, _, _)
ChainEdges(ids, strokes, prevNodeId, counter) ==
    IF ids = <<>> THEN <<>>
    ELSE IF prevNodeId # NoNode
         THEN <<Edge(counter, prevNodeId, Head(ids), Head(strokes))>>
              \o ChainEdges(Tail(ids), Tail(strokes), Head(ids), counter + 1)
         ELSE ChainEdges(Tail(ids), Tail(strokes), Head(ids), counter)

\* "Connect receivers to first processor (or first exporter if no processors)"
ReceiverEdges(pr, pipeline, counter) ==
    IF Len(pipeline.receivers) = 0 THEN <<>>
    ELSE LET firstTargetId ==
               IF Len(pipeline.processors) > 0 THEN ProcessorNodeId(pipeline, pipeline.processors[1])
               ELSE IF Len(pipeline.exporters) > 0 THEN ExporterNodeId(pipeline, pipeline.exporters[1])
               ELSE NoNode
             last == pipeline.receivers[Len(pipeline.receivers)]
         IN IF firstTargetId = NoNode THEN <<>>
            ELSE <<Edge(counter, ReceiverNodeId(pipeline, last), firstTargetId,
                        IF isConnector(last, pr.connectors) THEN "#f59e0b" ELSE "#22d3ee")>>

\* connectorNodes.get(name).push({ nodeId, pipelineId, role }) for the connector nodes of ns
Track(pipeline, ns, role) ==
    LET cs == SelectIdx(ns, LAMBDA k : ns[k].isConnector)
    IN [k \in DOMAIN cs |->
          [name |-> cs[k].label, nodeId |-> cs[k].id, pipelineId |-> pipeline.id, role |-> role]]

RowEdges(pr, pipeline, recv, proc, expo, counter) ==
    Only({ chain \o ReceiverEdges(pr, pipeline, counter + Len(chain)) :
           chain \in { ChainEdges([k \in DOMAIN proc |-> proc[k].id] \o [k \in DOMAIN expo |-> expo[k].id],
                                  [k \in DOMAIN proc |-> "#a855f7"]
                                    \o [k \in DOMAIN expo |->
                                          IF expo[k].isConnector THEN "#f59e0b" ELSE "#10b981"],
                                  IF recv = <<>> THEN NoNode ELSE recv[Len(recv)].id,
                                  counter) } })

\* nodes and edges of one pipeline row, edge ids numbered from counter
PipelineElements(pr, pipelineIndex, counter) ==
    Only({ [nodes |-> <<LabelNode("label-" \o pipeline.id, START_X - 30,
                                  START_Y + pipelineIndex * PIPELINE_SPACING + LABEL_OFFSET_Y,
                                  pipeline.name, pipeline.type)>> \o recv \o proc \o expo,
            edges |-> RowEdges(pr, pipeline, recv, proc, expo, counter),
            connectorNodes |-> Track(pipeline, recv, "receiver") \o Track(pipeline, expo, "exporter")] :
           pipeline \in { pr.pipelines[pipelineIndex + 1] },
           recv \in { ReceiverNodes(pr, pr.pipelines[pipelineIndex + 1],
                                    START_Y + pipelineIndex * PIPELINE_SPACING) },
           proc \in { ProcessorNodes(pr, pr.pipelines[pipelineIndex + 1],
                                     START_Y + pipelineIndex * PIPELINE_SPACING) },
           expo \in { ExporterNodes(pr, pr.pipelines[pipelineIndex + 1],
                                    START_Y + pipelineIndex * PIPELINE_SPACING) } })

\* parseResult.pipelines.forEach: rows in declaration order, one running edgeCounter
RECURSIVE PipelineRows(_, _, _)
PipelineRows(pr, pipelineIndex, counter) ==
    IF pipelineIndex >= Len(pr.pipelines)
    THEN [nodes |-> <<>>, edges |-> <<>>, connectorNodes |-> <<>>]
    ELSE Only({ Only({ [nodes |-> row.nodes \o rest.nodes,
                        edges |-> row.edges \o rest.edges,
                        connectorNodes |-> row.connectorNodes \o rest.connectorNodes] :
                       rest \in { PipelineRows(pr, pipelineIndex + 1, counter + Len(row.edges)) } }) :
                row \in { PipelineElements(pr, pipelineIndex, counter) } })

\* keys of the connectorNodes map, in insertion order
RECURSIVE MapKeys(_, _)
MapKeys(entries, seen) ==
    IF entries = <<>> THEN <<>>
    ELSE IF Head(entries).name \in seen THEN MapKeys(Tail(entries), seen)
    ELSE <<Head(entries).name>> \o MapKeys(Tail(entries), seen \cup {Head(entries).name})

\* the (exporter, receiver) pairs joined by a cross-pipeline edge, in push order
CrossPairs(connectorNodes) ==
    LET names == MapKeys(connectorNodes, {})
        of(name, role) ==
            SelectIdx(connectorNodes,
                      LAMBDA k : connectorNodes[k].name = name /\ connectorNodes[k].role = role)
        forExp(name, exp) ==
            LET recs == of(name, "receiver")
                keep == SelectIdx(recs, LAMBDA k : exp.pipelineId # recs[k].pipelineId)
            IN [k \in DOMAIN keep |-> [name |-> name, exp |-> exp, rec |-> keep[k]]]
        forName(name) ==
            LET exps == of(name, "exporter")
            IN Flatten([k \in DOMAIN exps |-> forExp(name, exps[k])])
    IN Flatten([k \in DOMAIN names |-> forName(names[k])])

CrossEdges(connectorNodes, counter) ==
    LET pairs == CrossPairs(connectorNodes)
    IN [k \in DOMAIN pairs |->
          ConnectorEdge(counter + k - 1, pairs[k].name, pairs[k].exp, pairs[k].rec)]

UnusedConnectors(pr) ==
    LET used == { n \in UNION { Range(pr.pipelines[i].receivers) \cup Range(pr.pipelines[i].exporters)
                                 : i \in DOMAIN pr.pipelines } : isConnector(n, pr.connectors) }
    IN SelectIdx(pr.connectors, LAMBDA k : pr.connectors[k].fullName \notin used)

ConnectorRow(pr) ==
    LET unusedConnectors == UnusedConnectors(pr)
        connectorY == START_Y + Len(pr.pipelines) * PIPELINE_SPACING + 30
    IN IF Len(unusedConnectors) = 0 THEN <<>>
       ELSE <<LabelNode("label-connectors", START_X - 30, connectorY + LABEL_OFFSET_Y,
                        "Connectors", "traces")>>
            \o [k \in DOMAIN unusedConnectors |->
                  LET c == unusedConnectors[k]
                  IN CompNode("connector-" \o c.fullName, START_X + (k - 1) * NODE_SPACING_X,
                              connectorY, c.fullName, "connector",
                              ("connectors." \o c.fullName) \in ErrorPaths(pr.errors)
                                \/ MessageNames(pr.errors, c.fullName),
                              c.config, TRUE, FALSE)]

\* Mutation for C24: the extensions row placed without regard to the connectors row
ExtensionYOverConnectors(pr) == START_Y + Len(pr.pipelines) * PIPELINE_SPACING + 30

\* const extensionY
ExtensionY(pr) ==
    START_Y + Len(pr.pipelines) * PIPELINE_SPACING
    + (IF Len(UnusedConnectors(pr)) > 0 THEN PIPELINE_SPACING ELSE 0) + 30

ExtensionRow(pr) ==
    LET extensionY == ExtensionY(pr)
    IN IF Len(pr.extensions) = 0 THEN <<>>
       ELSE <<LabelNode("label-extensions", START_X - 30, extensionY + LABEL_OFFSET_Y,
                        "Extensions", "logs")>>
            \o [k \in DOMAIN pr.extensions |->
                  LET x == pr.extensions[k]
                      isEnabled == x.fullName \in Range(pr.enabledExtensions)
                      hasError == ("extensions." \o x.fullName) \in ErrorPaths(pr.errors)
                                  \/ MessageNames(pr.errors, x.fullName)
                  IN CompNode("extension-" \o x.fullName, START_X + (k - 1) * NODE_SPACING_X,
                              extensionY, x.fullName, "extension", hasError \/ ~isEnabled,
                              x.config, FALSE, isEnabled)]

\* Mutation for C5: edgeCounter kept across calls, as a module-level counter would be
EdgeCounterCarried(carried) == carried

\* let edgeCounter = 0: the counter is a local of the call; carried is what the last call left
EdgeCounterStart(carried) == 0

\* generateFlowElements(parseResult, parseResult.errors)
generateFlowElements(pr, carried) ==
    Only({ Only({ [nodes |-> rows.nodes \o ConnectorRow(pr) \o ExtensionRow(pr),
                   edges |-> rows.edges \o cross,
                   edgeCounter |-> EdgeCounterStart(carried) + Len(rows.edges) + Len(cross)] :
                  cross \in { CrossEdges(rows.connectorNodes,
                                         EdgeCounterStart(carried) + Len(rows.edges)) } }) :
           rows \in { PipelineRows(pr, 0, EdgeCounterStart(carried)) } })

-----------------------------------------------------------------------------
(* otel-validator (server): validateWithFallback, validateWithBinary,      *)
(* validateOtelConfig.  A scalar stands for a truthy scalar that is not a  *)
(* string (a number, true): it has no own keys and is not iterable.        *)

NoComponent == ""

\* a server ValidationError: message, line, severity, component
ServerError(message, line, component) ==
    [message |-> message, severity |-> "error", line |-> line, column |-> NoLine,
     component |-> component]

ValidationResult(isValid, errors) == [isValid |-> isValid, errors |-> errors]

\* parse(configYaml) of the yaml package throws: a reported syntax error, a failing toJS
ParseThrows(in) == in.kind \in {"syntax", "throws", "nonstring"}

\* !config: parse returned null (empty text, whitespace, a null document)
ParsedEmpty(in) == in.kind \in {"empty", "blank", "null"}

\* the document as parse returned it: a mapping has its sections, a scalar or a sequence none
ParsedConfig(in) == IF in.kind = "mapping" THEN in.config ELSE EmptyConfig

\* new Set(Object.keys(config.<section> || {}))
SectionKeys(section) == Range(EntryKeys(section))

\* the keys a reference of one list is looked up in: those of the list's own section
KeysFor(config, name) == SectionKeys(config[name])

\* config.service?.pipelines || {}, as Object.entries gives it
PipelineEntries(config) ==
    IF Truthy(config.service) /\ IsObject(config.service)
       /\ Truthy(config.service.pipelines) /\ IsObject(config.service.pipelines)
    THEN config.service.pipelines.items ELSE <<>>

PipelineEntryNames(config) ==
    IF PipelineEntries(config) = <<>> THEN <<>> ELSE PipelineKeys(config.service.pipelines)

\* pipeline.<list> || []: for...of throws on a mapping or a number
NotIterable(v) == v.kind \in {"map", "scalar"}
Iterated(v) == IF v.kind = "seq" THEN v.keys ELSE <<>>

\* errors pushed for one list of one pipeline entry
ServerUndefinedRefs(pipelineName, refs, known, kind) ==
    LET bad == SelectIdx(refs, LAMBDA i : refs[i] \notin known)
    IN [i \in DOMAIN bad |->
          ServerError(<<T("Pipeline "), Q(pipelineName), T(" references undefined " \o kind \o " "), Q(bad[i])>>,
                      NoLine, "service.pipelines." \o pipelineName)]

\* the pass over one pipeline entry: the errors pushed, and whether it threw.
\* pipeline.receivers on a null entry throws; so does for...of on a value that is not iterable
ServerPipelinePass(config, pipelineName, entry) ==
    IF entry.kind = "null" THEN [errors |-> <<>>, threw |-> TRUE]
    ELSE LET r == ServerUndefinedRefs(pipelineName, Iterated(entry.receivers),
                                      KeysFor(config, "receivers"), "receiver")
             p == ServerUndefinedRefs(pipelineName, Iterated(entry.processors),
                                      KeysFor(config, "processors"), "processor")
             e == ServerUndefinedRefs(pipelineName, Iterated(entry.exporters),
                                      KeysFor(config, "exporters"), "exporter")
         IN IF NotIterable(entry.receivers) THEN [errors |-> <<>>, threw |-> TRUE]
            ELSE IF NotIterable(entry.processors) THEN [errors |-> r, threw |-> TRUE]
            ELSE IF NotIterable(entry.exporters) THEN [errors |-> r \o p, threw |-> TRUE]
            ELSE [errors |-> r \o p \o e, threw |-> FALSE]

\* the loop over the pipeline entries, left at the first throw
RECURSIVE ServerPipelinesPass(_, _, _, _)
ServerPipelinesPass(config, names, entries, i) ==
    IF i > Len(entries) THEN [errors |-> <<>>, threw |-> FALSE]
    ELSE Only({ IF pass.threw THEN pass
                ELSE Only({ [errors |-> pass.errors \o rest.errors, threw |-> rest.threw] :
                            rest \in { ServerPipelinesPass(config, names, entries, i + 1) } }) :
                pass \in { ServerPipelinePass(config, names[i], entries[i]) } })

\* config.service?.extensions || []
ServiceExtensions(config) ==
    IF Truthy(config.service) /\ IsObject(config.service) THEN config.service.extensions ELSE Absent

ServerExtensionPass(config) ==
    IF NotIterable(ServiceExtensions(config)) THEN [errors |-> <<>>, threw |-> TRUE]
    ELSE LET refs == Iterated(ServiceExtensions(config))
             bad == SelectIdx(refs, LAMBDA i : refs[i] \notin KeysFor(config, "extensions"))
         IN [errors |-> [i \in DOMAIN bad |->
                           ServerError(<<T("Service references undefined extension "), Q(bad[i])>>,
                                       NoLine, "service.extensions")],
             threw |-> FALSE]

\* the required-section checks, which do not return
ServerSectionErrors(config) ==
    (IF ~Truthy(config.service)
     THEN <<ServerError(<<T("Missing required "), Q("service"), T(" section")>>, NoLine, NoComponent)>>
     ELSE <<>>)
    \o (IF ~(Truthy(config.service) /\ IsObject(config.service) /\ Truthy(config.service.pipelines))
        THEN <<ServerError(<<T("Missing required "), Q("service.pipelines"), T(" section")>>,
                           NoLine, NoComponent)>>
        ELSE <<>>)

\* Mutation for C21: the catch block answering without pushing its error
SyntaxErrorResultSilent(errors, message) == ValidationResult(FALSE, errors)

\* the catch block: the errors pushed so far and the exception's message
SyntaxErrorResult(errors, message) ==
    ValidationResult(FALSE, Append(errors, ServerError(<<T("YAML syntax error: "), T(message)>>,
                                                       NoLine, NoComponent)))

\* isValid: errors.length === 0
FallbackValid(errors) == Len(errors) = 0

validateWithFallback(in) ==
    IF ParseThrows(in) THEN SyntaxErrorResult(<<>>, "parse")
    ELSE IF ParsedEmpty(in)
    THEN ValidationResult(FALSE, <<ServerError(<<T("Empty configuration")>>, NoLine, NoComponent)>>)
    ELSE Only({ Only({ IF pipes.threw
                       THEN SyntaxErrorResult(ServerSectionErrors(config) \o pipes.errors, "TypeError")
                       ELSE Only({ IF exts.threw
                                   THEN SyntaxErrorResult(ServerSectionErrors(config) \o pipes.errors,
                                                          "TypeError")
                                   ELSE Only({ ValidationResult(FallbackValid(errors), errors) :
                                               errors \in { ServerSectionErrors(config) \o pipes.errors
                                                            \o exts.errors } }) :
                                   exts \in { ServerExtensionPass(config) } }) :
                       pipes \in { ServerPipelinesPass(config, PipelineEntryNames(config),
                                                       PipelineEntries(config), 1) } }) :
                config \in { ParsedConfig(in) } })

(* The otelcol process.  A run either exits with 0 or fails (non-zero exit, *)
(* timeout, write failure) leaving lines of output; a line is one that a   *)
(* pattern of parseOtelErrors matches, one that only holds the word        *)
(* 'failed', or one that holds none of the words looked for.               *)

PipelineLine == [class |-> "pipeline", text |-> "traces"]
FailedLine == [class |-> "failed", text |-> "Command failed: otelcol validate"]
PlainLine == [class |-> "plain", text |-> "signal: killed"]

OutputLines == {PipelineLine, FailedLine, PlainLine}

\* the errors parseOtelErrors reads from the lines of stderr and stdout
parseOtelErrors(lines) ==
    LET matched == SelectIdx(lines, LAMBDA i : lines[i].class = "pipeline")
        meaningful == SelectIdx(lines, LAMBDA i : lines[i].class = "failed")
    IN IF matched # <<>>
       THEN [i \in DOMAIN matched |->
               ServerError(<<T("Pipeline "), Q(matched[i].text), T(": must have at least one exporter")>>,
                           NoLine, "pipelines." \o matched[i].text)]
       ELSE IF meaningful # <<>>
       THEN <<ServerError(<<T(meaningful[1].text)>>, NoLine, NoComponent)>>
       ELSE <<>>

\* stderr || 'Configuration validation failed'
GenericError(lines) ==
    ServerError(IF lines = <<>> THEN <<T("Configuration validation failed")>>
                ELSE [i \in DOMAIN lines |-> T(lines[i].text)],
                NoLine, NoComponent)

validateWithBinary(run) ==
    IF run.ok THEN ValidationResult(TRUE, <<>>)
    ELSE Only({ ValidationResult(FALSE, IF errors = <<>> THEN <<GenericError(run.lines)>> ELSE errors) :
                errors \in { parseOtelErrors(run.lines) } })

\* validateOtelConfig: the binary when isOtelcolAvailable, the fallback otherwise
validateOtelConfig(in, binaryAvailable, run) ==
    IF binaryAvailable THEN validateWithBinary(run) ELSE validateWithFallback(in)

\* z.string().min(1): the request is refused before the procedure runs
RouterRejects(in) == in.kind \in {"empty", "nonstring"}

-----------------------------------------------------------------------------
(* useOtelValidation (client): validateWithBinary and validateConfig *)

\* the catch block of the hook's validateWithBinary: the client-side result
ClientFallbackResult(in) ==
    Only({ ValidationResult(r.value.isValid, r.value.errors) : r \in { parseOTelConfig(in) } })

\* !binaryResult.isValid && binaryResult.errors.length > 0
MergeApplies(binary) == ~binary.isValid /\ Len(binary.errors) > 0

\* Mutation for C16: every binary error appended, without the message test
MergedErrorsWithoutDedup(errors, binary) ==
    IF MergeApplies(binary) THEN errors \o binary.errors ELSE errors

\* parseResult.errors after the merge loop
MergedErrors(errors, binary) ==
    IF MergeApplies(binary)
    THEN LET existingMessages == { errors[i].message : i \in DOMAIN errors }
         IN errors \o SelectIdx(binary.errors,
                                LAMBDA i : binary.errors[i].message \notin existingMessages)
    ELSE errors

\* Mutation for C17: the validity of the core kept after the merge
MergedValidOfCore(isValid, binary) == isValid

\* parseResult.isValid after the merge
MergedValid(isValid, binary) ==
    IF MergeApplies(binary) THEN binary.isValid ELSE isValid

-----------------------------------------------------------------------------
(* The explored arguments of parseOTelConfig *)

\* the pipeline keys of the explored documents, in declaration order
PipelineNames == <<"traces", "metrics/2">>

\* a reference that can be appended to a list of a pipeline: <<list, identifier>>
RefPool ==
    { <<"receivers", "otlp">>, <<"receivers", "fwd">>,
      <<"processors", "batch">>, <<"processors", "fwd">>,
      <<"exporters", "debug">>, <<"exporters", "fwd">> }

BarePipelines(n) ==
    [i \in 1..n |-> [kind |-> "map", name |-> PipelineNames[i], receivers |-> SeqOf(<<>>),
                     processors |-> SeqOf(<<>>), exporters |-> SeqOf(<<>>)]]

\* a pipeline key with no value
NullPipeline(name) ==
    [kind |-> "null", name |-> name, receivers |-> Absent, processors |-> Absent, exporters |-> Absent]

AddRef(items, i, ref) ==
    [items EXCEPT ![i][ref[1]] = SeqOf(Append(@.keys, ref[2]))]

\* the documents' pipeline sections with n pipelines and k references in all
RECURSIVE WithRefs(_, _)
WithRefs(n, k) ==
    IF k = 0 THEN { BarePipelines(n) }
    ELSE { AddRef(items, i, ref) : items \in WithRefs(n, k - 1), i \in 1..n, ref \in RefPool }

PipelineSections(maxRefs) ==
    UNION { WithRefs(n, k) : n \in 0..Len(PipelineNames), k \in 0..maxRefs }

Service(pipelines, extensions) ==
    [kind |-> "map", pipelines |-> pipelines, extensions |-> extensions]

Config(r, p, e, c, x, service) ==
    [receivers |-> r, processors |-> p, exporters |-> e, connectors |-> c,
     extensions |-> x, service |-> service]

\* the catalogs: each identifier defined or not in the sections that can hold it
Catalogs ==
    { Config(r, p, e, c, Absent, NoService) :
        r \in {Absent, MapOf(<<"otlp">>), MapOf(<<"otlp", "fwd">>)},
        p \in {Absent, MapOf(<<"batch">>), MapOf(<<"batch", "fwd">>)},
        e \in {MapOf(<<"debug">>), MapOf(<<"debug", "fwd">>)},
        c \in {Absent, MapOf(<<"fwd">>)} }

\* service sections: absent, null, a scalar, without pipelines, with pipelines
Services ==
    { NoService,
      [NoService EXCEPT !.kind = "null"],
      [NoService EXCEPT !.kind = "scalar"],
      Service(NoPipelines, Absent),
      Service([NoPipelines EXCEPT !.kind = "null"], Absent) }
    \cup { Service([kind |-> "map", items |-> items], Absent) : items \in PipelineSections(MaxRefs) }

\* documents that vary the extensions against service.extensions
ExtensionConfigs ==
    { Config(MapOf(<<"otlp">>), Absent, MapOf(<<"debug">>), Absent, x, sv) :
        x \in {Absent, MapOf(<<"zpages">>), MapOf(<<"zpages", "pprof">>), MapOf(<<"health", "zpages">>)},
        sv \in { NoService }
               \cup { Service(pl, en) :
                        pl \in { NoPipelines,
                                 [kind |-> "map",
                                  items |-> AddRef(AddRef(BarePipelines(1), 1, <<"receivers", "otlp">>),
                                                   1, <<"exporters", "debug">>)],
                                 [kind |-> "map",
                                  items |-> AddRef(AddRef(BarePipelines(1), 1, <<"receivers", "fwd">>),
                                                   1, <<"processors", "batch">>)] },
                        en \in { Absent, ScalarValue, SeqOf(<<>>), SeqOf(<<"zpages">>),
                                 SeqOf(<<"pprof">>), SeqOf(<<"zpages", "pprof">>),
                                 SeqOf(<<"pprof", "pprof">>) } } }

\* documents whose sections are not all mappings: null, scalar and sequence values
ShapeConfigs ==
    { Config(r, MapOf(<<"batch">>), e, Absent, Absent, sv) :
        r \in {NullValue, ScalarValue, SeqOf(<<>>), SeqOf(<<"otlp">>), MapOf(<<>>), MapOf(<<"otlp">>)},
        e \in {ScalarValue, SeqOf(<<"debug", "debug">>), MapOf(<<"debug">>)},
        sv \in { [NoService EXCEPT !.kind = "seq"] }
               \cup { Service(pl, Absent) :
                        pl \in { [NoPipelines EXCEPT !.kind = "scalar"],
                                 [kind |-> "seq", items |-> <<>>],
                                 [kind |-> "seq",
                                  items |-> AddRef(AddRef(BarePipelines(1), 1, <<"receivers", "otlp">>),
                                                   1, <<"exporters", "debug">>)],
                                 [kind |-> "map", items |-> <<NullPipeline("traces")>>],
                                 [kind |-> "map", items |-> BarePipelines(2)] } } }

\* documents with two pipelines, a connector and extensions: every row of the graph
LayoutConfigs ==
    { Config(MapOf(<<"otlp">>), MapOf(<<"batch">>), MapOf(<<"debug">>), MapOf(<<"fwd">>), x,
             Service([kind |-> "map", items |-> items], SeqOf(<<"zpages">>))) :
        x \in {MapOf(<<"zpages">>), MapOf(<<"zpages", "pprof">>)},
        items \in WithRefs(Len(PipelineNames), 2) }

\* documents in which an entry has the key text of the section that holds it
NestedKeyConfigs ==
    { Config(r, Absent, MapOf(<<"debug">>), Absent, Absent,
             Service([kind |-> "map",
                      items |-> <<[kind |-> "map", name |-> name, receivers |-> SeqOf(<<"otlp">>),
                                   processors |-> Absent, exporters |-> SeqOf(<<"debug">>)]>>],
                     Absent)) :
        r \in {MapOf(<<"otlp">>), MapOf(<<"otlp", "receivers">>)},
        name \in {"traces", "pipelines"} }

\* documents written with four spaces per nesting level
IndentedConfigs ==
    { [cat EXCEPT !.service = sv] :
        cat \in Catalogs,
        sv \in { Service(NoPipelines, Absent),
                 Service(NoPipelines, SeqOf(<<"zpages">>)),
                 Service([kind |-> "map",
                          items |-> AddRef(AddRef(BarePipelines(Len(PipelineNames)), 1, <<"receivers", "otlp">>),
                                           2, <<"exporters", "fwd">>)],
                         Absent) } }

\* service sections that vary the pipelines over a fixed catalog
GraphServices ==
    { Service([kind |-> "map", items |-> items], Absent) : items \in PipelineSections(MaxGraphRefs) }

Text(kind) == [kind |-> kind, nerr |-> 0, config |-> EmptyConfig, indent |-> 2]

Mapping(config) == [kind |-> "mapping", nerr |-> 0, config |-> config, indent |-> 2]

\* a text whose nesting levels are indented by four spaces
Indented(config) == [kind |-> "mapping", nerr |-> 0, config |-> config, indent |-> 4]

\* texts that do not decode to a mapping, and a non-string argument
OtherInputs ==
    { Text(k) : k \in {"nonstring", "empty", "blank", "throws", "null", "scalar", "sequence"} }
    \cup { [kind |-> "syntax", nerr |-> n, config |-> EmptyConfig, indent |-> 2] : n \in 1..MaxSyntaxErrors }

-----------------------------------------------------------------------------
(* The state machine: one text is validated, its result is drawn *)

EmptyGraph == [nodes |-> <<>>, edges |-> <<>>]

\* no validation request made yet
NoRun == [ok |-> TRUE, lines |-> <<>>]
NoRequest == [mode |-> "none", run |-> NoRun]
NoBinaryResult == [isValid |-> FALSE, errors |-> <<>>]

Init ==
    /\ \/ input \in OtherInputs
       \/ \E cat \in Catalogs, sv \in Services : input = Mapping([cat EXCEPT !.service = sv])
       \/ \E config \in ExtensionConfigs \cup ShapeConfigs \cup LayoutConfigs \cup NestedKeyConfigs :
             input = Mapping(config)
       \/ \E config \in IndentedConfigs : input = Indented(config)
       \/ \E c \in {Absent, MapOf(<<"fwd">>)}, sv \in GraphServices :
             input = Mapping(Config(MapOf(<<"otlp">>), MapOf(<<"batch">>), MapOf(<<"debug">>),
                                    c, Absent, sv))
    /\ pc = "start"
    /\ result = EmptyResult
    /\ graph = EmptyGraph
    /\ prevGraph = EmptyGraph
    /\ edgeCounter = 0
    /\ calls = 0
    /\ api = NoRequest
    /\ binaryResult = NoBinaryResult
    /\ merged = EmptyResult
    /\ reading = {}
    /\ requests = <<>>
    /\ isValidating = FALSE

\* parseOTelConfig(yamlContent) returns
Validate ==
    /\ pc = "start"
    /\ \E r \in { parseOTelConfig(input) } :
          /\ ~r.raised
          /\ result' = r.value
    /\ pc' = "parsed"
    /\ UNCHANGED <<input, graph, prevGraph, edgeCounter, calls, api, binaryResult, merged, reading, requests, isValidating>>

\* parseOTelConfig(yamlContent) throws
ValidateRaises ==
    /\ pc = "start"
    /\ \E r \in { parseOTelConfig(input) } : r.raised
    /\ pc' = "raised"
    /\ UNCHANGED <<input, result, graph, prevGraph, edgeCounter, calls, api, binaryResult, merged, reading, requests, isValidating>>

\* generateFlowElements(parseResult, parseResult.errors)
BuildGraph ==
    /\ pc \in {"parsed", "built"}
    /\ calls < MaxCalls
    /\ \E g \in { generateFlowElements(result, edgeCounter) } :
          /\ graph' = [nodes |-> g.nodes, edges |-> g.edges]
          /\ edgeCounter' = g.edgeCounter
    /\ prevGraph' = graph
    /\ calls' = calls + 1
    /\ pc' = "built"
    /\ UNCHANGED <<input, result, api, binaryResult, merged, reading, requests, isValidating>>

Next == Validate \/ ValidateRaises \/ BuildGraph

Spec == Init /\ [][Next]_vars

-----------------------------------------------------------------------------
(* The state machine of the validation hook: the text is parsed by the      *)
(* client, sent to the server, and the answer is merged into the result.    *)

\* the references of the explored server requests: <<list, identifier>>
ServerRefPool ==
    { <<"receivers", "otlp">>, <<"receivers", "fwd">>,
      <<"processors", "fwd">>, <<"exporters", "fwd">> }

RECURSIVE WithServerRefs(_, _)
WithServerRefs(n, k) ==
    IF k = 0 THEN { BarePipelines(n) }
    ELSE { AddRef(items, i, ref) : items \in WithServerRefs(n, k - 1), i \in 1..n, ref \in ServerRefPool }

\* pipeline sections with up to MaxServerRefs references, and those with a pipeline key without value
ServerPipelineSections ==
    LET full == UNION { WithServerRefs(n, k) : n \in 0..Len(PipelineNames), k \in 0..MaxServerRefs }
    IN full \cup { [items EXCEPT ![i] = NullPipeline(PipelineNames[i])] :
                     i \in 1..Len(PipelineNames),
                     items \in { it \in full : Len(it) = Len(PipelineNames) } }

\* catalogs and enabled extensions of the explored server requests
ServerCatalogs ==
    { <<Absent, Absent, Absent>>,
      <<MapOf(<<"fwd">>), MapOf(<<"zpages">>), SeqOf(<<"zpages">>)>>,
      <<Absent, MapOf(<<"zpages">>), SeqOf(<<"pprof">>)>> }

ServerServices(enabled) ==
    { NoService, Service(NoPipelines, Absent) }
    \cup { Service([kind |-> "map", items |-> items], enabled) : items \in ServerPipelineSections }

ServerConfigs ==
    UNION { { Config(MapOf(<<"otlp">>), MapOf(<<"batch">>), MapOf(<<"debug">>), cat[1], cat[2], sv) :
                sv \in ServerServices(cat[3]) } : cat \in ServerCatalogs }

\* the runs of otelcol validate: exit 0, or a failure that leaves lines of output
BinaryRuns ==
    { NoRun } \cup { [ok |-> FALSE, lines |-> lines] :
                       lines \in UNION { [1..n -> OutputLines] : n \in 0..MaxOutputLines } }

HookInit ==
    /\ \/ input \in OtherInputs
       \/ \E config \in ServerConfigs : input = Mapping(config)
    /\ pc = "start"
    /\ result = EmptyResult
    /\ graph = EmptyGraph
    /\ prevGraph = EmptyGraph
    /\ edgeCounter = 0
    /\ calls = 0
    /\ api = NoRequest
    /\ binaryResult = NoBinaryResult
    /\ merged = EmptyResult
    /\ reading = {}
    /\ requests = <<>>
    /\ isValidating = FALSE

\* validateMutation.mutateAsync rejects (no server, or the router refuses the
\* input): the hook answers with the client-side result
ApiFails ==
    /\ pc = "parsed"
    /\ binaryResult' = ClientFallbackResult(input)
    /\ api' = [mode |-> "api_failed", run |-> NoRun]
    /\ pc' = "answered"
    /\ UNCHANGED <<input, result, graph, prevGraph, edgeCounter, calls, merged, reading, requests, isValidating>>

\* the server has the binary: validateOtelConfig answers with validateWithBinary
ServerBinary ==
    /\ pc = "parsed"
    /\ ~RouterRejects(input)
    /\ \E run \in BinaryRuns :
          /\ binaryResult' = validateOtelConfig(input, TRUE, run)
          /\ api' = [mode |-> "binary", run |-> run]
    /\ pc' = "answered"
    /\ UNCHANGED <<input, result, graph, prevGraph, edgeCounter, calls, merged, reading, requests, isValidating>>

\* the server has no binary: validateOtelConfig answers with validateWithFallback
ServerFallback ==
    /\ pc = "parsed"
    /\ ~RouterRejects(input)
    /\ binaryResult' = validateOtelConfig(input, FALSE, NoRun)
    /\ api' = [mode |-> "fallback", run |-> NoRun]
    /\ pc' = "answered"
    /\ UNCHANGED <<input, result, graph, prevGraph, edgeCounter, calls, merged, reading, requests, isValidating>>

\* validateConfig of the hook after the await: merge and return
Merge ==
    /\ pc = "answered"
    /\ merged' = [result EXCEPT !.errors = MergedErrors(result.errors, binaryResult),
                                !.isValid = MergedValid(result.isValid, binaryResult)]
    /\ pc' = "merged"
    /\ UNCHANGED <<input, result, graph, prevGraph, edgeCounter, calls, api, binaryResult, reading, requests, isValidating>>

HookNext == Validate \/ ValidateRaises \/ ApiFails \/ ServerBinary \/ ServerFallback \/ Merge

HookSpec == HookInit /\ [][HookNext]_vars

-----------------------------------------------------------------------------
(* Claims *)

Identifiers == {"otlp", "batch", "debug", "fwd", "zpages", "pprof", "health"}

Occurrences(s, x) == Cardinality({ i \in DOMAIN s : s[i] = x })

\* C1: parseOTelConfig returns a ParseResult and never raises, for every input
\* (empty text, syntax errors, a null document, a scalar, a sequence, a
\* non-string argument).
C1_NeverRaises == pc # "raised"

\* C2: in every returned ParseResult, isValid is true if and only if no
\* diagnostic has severity 'error'; warnings never make isValid false.
C2_ValidIffNoError ==
    pc = "parsed" =>
        (result.isValid <=> \A i \in DOMAIN result.errors : result.errors[i].severity # "error")

C2_Witness ==
    /\ pc = "parsed"
    /\ result.isValid
    /\ \E i \in DOMAIN result.errors : result.errors[i].severity = "warning"

\* C3: for every document that has no service section, the diagnostics are
\* exactly one error, 'Missing required "service" section', and isValid is
\* false, whatever components are defined.
C3_NoServiceOneError ==
    (/\ pc # "start"
     /\ input.kind \in {"mapping", "scalar", "sequence", "null"}
     /\ input.config.service.kind = "absent")
    => /\ pc # "raised"
       /\ Len(result.errors) = 1
       /\ result.errors[1].message = <<T("Missing required "), Q("service"), T(" section")>>
       /\ result.errors[1].severity = "error"
       /\ ~result.isValid

ExpectedUndefined(p, kind, ref) ==
    [message |-> <<T("Pipeline "), Q(p.name), T(" references undefined " \o kind \o " "), Q(ref)>>,
     severity |-> "error", line |-> p.lineNumber, column |-> NoLine,
     path |-> "service.pipelines." \o p.name \o "." \o kind \o "s"]

\* C4: for every pipeline p and every reference ref in one of its lists, the
\* error 'Pipeline "<p>" references undefined <kind> "<ref>"' (path
\* service.pipelines.<p>.<kind>s, line of p) is emitted once per occurrence
\* of ref if ref is not in receivers+connectors, processors, or
\* exporters+connectors respectively, and not at all otherwise.
C4_UndefinedReferences ==
    pc = "parsed" =>
        \A i \in DOMAIN result.pipelines : \A ref \in Identifiers :
            LET p == result.pipelines[i]
                conn == FullNames(result.connectors)
            IN /\ Occurrences(result.errors, ExpectedUndefined(p, "receiver", ref))
                    = IF ref \in FullNames(result.receivers) \cup conn THEN 0
                      ELSE Occurrences(p.receivers, ref)
               /\ Occurrences(result.errors, ExpectedUndefined(p, "processor", ref))
                    = IF ref \in FullNames(result.processors) THEN 0
                      ELSE Occurrences(p.processors, ref)
               /\ Occurrences(result.errors, ExpectedUndefined(p, "exporter", ref))
                    = IF ref \in FullNames(result.exporters) \cup conn THEN 0
                      ELSE Occurrences(p.exporters, ref)

\* a connector accepted in a receiver list, and rejected twice in a processor list
C4_Witness ==
    /\ pc = "parsed"
    /\ "fwd" \in FullNames(result.connectors)
    /\ "fwd" \notin FullNames(result.receivers) \cup FullNames(result.processors)
    /\ \E i \in DOMAIN result.pipelines : result.pipelines[i].receivers = <<"fwd">>
    /\ \E i \in DOMAIN result.pipelines :
          /\ result.pipelines[i].processors = <<"fwd">>
          /\ Occurrences(result.errors, ExpectedUndefined(result.pipelines[i], "processor", "fwd")) = 1

\* an undefined exporter referenced twice by one pipeline
C4_WitnessTwice ==
    /\ pc = "parsed"
    /\ \E i \in DOMAIN result.pipelines :
          /\ result.pipelines[i].exporters = <<"fwd", "fwd">>
          /\ Occurrences(result.errors, ExpectedUndefined(result.pipelines[i], "exporter", "fwd")) = 2


ExpectedUnused(Kind, section, c) ==
    [message |-> <<T(Kind \o " "), Q(c.fullName), T(" is defined but not used in any pipeline")>>,
     severity |-> "warning", line |-> c.lineNumber, column |-> NoLine,
     path |-> section \o "." \o c.fullName]

\* the diagnostics that reference the entry c of a section, by path
Referencing(section, c) ==
    { k \in DOMAIN result.errors : result.errors[k].path = section \o "." \o c.fullName }

\* one warning for each unused entry of a catalog, none for a used one
UnusedRuleFor(components, Kind, section, used) ==
    \A i \in DOMAIN components :
        LET c == components[i]
        IN IF c.fullName \in used
           THEN Referencing(section, c) = {}
           ELSE /\ Cardinality(Referencing(section, c)) = 1
                /\ \A k \in Referencing(section, c) : result.errors[k] = ExpectedUnused(Kind, section, c)

UnusedRule ==
    /\ UnusedRuleFor(result.receivers, "Receiver", "receivers",
                     UNION { Range(result.pipelines[i].receivers) : i \in DOMAIN result.pipelines })
    /\ UnusedRuleFor(result.processors, "Processor", "processors",
                     UNION { Range(result.pipelines[i].processors) : i \in DOMAIN result.pipelines })
    /\ UnusedRuleFor(result.exporters, "Exporter", "exporters",
                     UNION { Range(result.pipelines[i].exporters) : i \in DOMAIN result.pipelines })

IsUnusedWarning(d) == d.message[Len(d.message)] = T(" is defined but not used in any pipeline")

\* C6 as stated: every receiver (processor, exporter) of the catalog that no
\* pipeline references in its receiver (processor, exporter) list has exactly
\* one warning with path receivers.<id>, and a referenced one has none.
C6_UnusedAlways == pc = "parsed" => UnusedRule

\* C6 as amended: the same, for the documents whose service section is present
\* and truthy; when the service section is missing or null no unused-component
\* warning is emitted at all.
C6_UnusedWhenServicePresent ==
    pc = "parsed" =>
        IF input.config.service.kind \in {"absent", "null"}
        THEN \A k \in DOMAIN result.errors : ~IsUnusedWarning(result.errors[k])
        ELSE UnusedRule

C6_Witness ==
    /\ pc = "parsed"
    /\ input.config.service.kind = "map"
    /\ FullNames(result.receivers) = {"otlp", "fwd"}
    /\ \E i \in DOMAIN result.pipelines : "otlp" \in Range(result.pipelines[i].receivers)
    /\ \A i \in DOMAIN result.pipelines : "fwd" \notin Range(result.pipelines[i].receivers)
    /\ Occurrences(result.errors, ExpectedUnused("Receiver", "receivers", result.receivers[2])) = 1
    /\ Occurrences(result.errors, ExpectedUnused("Receiver", "receivers", result.receivers[1])) = 0

\* c is an exporter of one pipeline and a receiver of another
UsedAcross(c) ==
    \E a, b \in DOMAIN result.pipelines :
        /\ a # b
        /\ c \in Range(result.pipelines[a].exporters)
        /\ c \in Range(result.pipelines[b].receivers)

\* C7 as stated: a connector identifier used as exporter in one pipeline and as
\* receiver in another appears in no 'is defined but not used' warning, and no
\* such warning has a connectors-catalog entry as its subject.
C7_ConnectorNeverNamed ==
    pc = "parsed" =>
        \A c \in FullNames(result.connectors) : \A k \in DOMAIN result.errors :
            LET d == result.errors[k]
            IN /\ d.path # "connectors." \o c
               /\ (UsedAcross(c) /\ IsUnusedWarning(d)) => ~Includes(d.message, c)

\* C7 as amended: such a connector identifier appears in no Receiver or
\* Exporter 'is defined but not used' warning; the only such warning that can
\* name it is the Processor warning of a same-named processors-catalog entry
\* that no processor list references; no diagnostic has path connectors.<id>.
C7_ConnectorExempt ==
    pc = "parsed" =>
        \A c \in FullNames(result.connectors) : \A k \in DOMAIN result.errors :
            LET d == result.errors[k]
            IN /\ d.path # "connectors." \o c
               /\ (UsedAcross(c) /\ IsUnusedWarning(d) /\ Includes(d.message, c))
                    => /\ d.path = "processors." \o c
                       /\ c \in FullNames(result.processors)
                       /\ \A i \in DOMAIN result.pipelines : c \notin Range(result.pipelines[i].processors)

C7_Witness ==
    /\ pc = "parsed"
    /\ "fwd" \in FullNames(result.connectors)
    /\ "fwd" \in FullNames(result.receivers) \cap FullNames(result.exporters) \cap FullNames(result.processors)
    /\ UsedAcross("fwd")
    /\ \E k \in DOMAIN result.errors :
          IsUnusedWarning(result.errors[k]) /\ result.errors[k].path = "processors.fwd"

\* the cross-pipeline edges from A's exporter node of c to B's receiver node of c
CrossEdgesOf(c, A, B) ==
    { k \in DOMAIN graph.edges :
        /\ graph.edges[k].dashed
        /\ graph.edges[k].label = c
        /\ graph.edges[k].source = A.id \o "-exporter-" \o c
        /\ graph.edges[k].target = B.id \o "-receiver-" \o c }

\* C8: for every connector c and ordered pair of distinct pipelines (A, B) with
\* c in A's exporter list and in B's receiver list there is exactly one
\* cross-pipeline edge, dashed and labelled c, from A's exporter node of c to
\* B's receiver node of c; and there is no other cross-pipeline edge.
C8_OneCrossEdgePerPair ==
    pc = "built" =>
        /\ \A c \in FullNames(result.connectors) : \A a, b \in DOMAIN result.pipelines :
              (/\ a # b
               /\ c \in Range(result.pipelines[a].exporters)
               /\ c \in Range(result.pipelines[b].receivers))
              => Cardinality(CrossEdgesOf(c, result.pipelines[a], result.pipelines[b])) = 1
        /\ \A k \in DOMAIN graph.edges :
              graph.edges[k].dashed =>
                  \E c \in FullNames(result.connectors) : \E a, b \in DOMAIN result.pipelines :
                      /\ a # b
                      /\ c \in Range(result.pipelines[a].exporters)
                      /\ c \in Range(result.pipelines[b].receivers)
                      /\ k \in CrossEdgesOf(c, result.pipelines[a], result.pipelines[b])

\* C9: for empty or whitespace-only text validate returns exactly one
\* diagnostic, the error 'Configuration is empty', isValid = false and a null
\* rawConfig; the graph of that result has no node and no edge.
C9_EmptyText ==
    (input.kind \in {"empty", "blank"} /\ pc # "start") =>
        /\ pc # "raised"
        /\ Len(result.errors) = 1
        /\ result.errors[1].message = <<T("Configuration is empty")>>
        /\ result.errors[1].severity = "error"
        /\ ~result.isValid
        /\ result.rawConfig = "null"
        /\ pc = "built" => (graph.nodes = <<>> /\ graph.edges = <<>>)

C9_Witness == input.kind = "blank" /\ pc = "built" /\ calls = 1

\* the node ids of a pipeline's row, receivers then processors then exporters
Stages(p) ==
    [k \in DOMAIN p.receivers |-> p.id \o "-receiver-" \o p.receivers[k]]
    \o [k \in DOMAIN p.processors |-> p.id \o "-processor-" \o p.processors[k]]
    \o [k \in DOMAIN p.exporters |-> p.id \o "-exporter-" \o p.exporters[k]]

\* the intra-pipeline edges of a pipeline
IntraEdges(p) ==
    { k \in DOMAIN graph.edges : ~graph.edges[k].dashed /\ graph.edges[k].source \in Range(Stages(p)) }

\* C10: a pipeline with one receiver, P processors and E exporters (P+E >= 1)
\* has exactly P+E intra-pipeline edges, one between each pair of consecutive
\* stages, and no two edges share the same source and target.
C10_ChainEdges ==
    pc = "built" =>
        \A i \in DOMAIN result.pipelines :
            LET p == result.pipelines[i]
                stages == Stages(p)
            IN (Len(p.receivers) = 1 /\ Len(stages) >= 2) =>
                  /\ Cardinality(IntraEdges(p)) = Len(p.processors) + Len(p.exporters)
                  /\ \A j \in 1..(Len(stages) - 1) :
                        \E k \in IntraEdges(p) :
                            graph.edges[k].source = stages[j] /\ graph.edges[k].target = stages[j + 1]
                  /\ \A k, l \in IntraEdges(p) :
                        (graph.edges[k].source = graph.edges[l].source
                         /\ graph.edges[k].target = graph.edges[l].target) => k = l


\* the group of a diagnostic in the order of the validation passes
DiagGroup(d) ==
    LET m == d.message[1]
    IN CASE m = T("Missing required ") -> 1
         [] m = T("Pipeline ") -> 2
         [] m = T("Service references undefined extension ") -> 3
         [] m = T("Receiver ") -> 4
         [] m = T("Processor ") -> 5
         [] m = T("Exporter ") -> 6
         [] m = T("Extension ") -> 7
         [] OTHER -> 0

\* the step of a pipeline diagnostic within its pipeline's pass
PipelineStep(d) ==
    LET m == d.message[3]
    IN CASE m = T(" references undefined receiver ") -> 1
         [] m = T(" references undefined processor ") -> 2
         [] m = T(" references undefined exporter ") -> 3
         [] m = T(" has no receivers defined") -> 4
         [] m = T(" has no exporters defined") -> 5
         [] OTHER -> 0

\* <<group, pipeline index, step>> of a diagnostic
DiagKey(d) ==
    IF DiagGroup(d) = 2
    THEN <<2, IndexOf([i \in DOMAIN result.pipelines |-> result.pipelines[i].name], d.message[2].t),
           PipelineStep(d)>>
    ELSE <<DiagGroup(d), 0, 0>>

KeyLeq(a, b) ==
    \/ a[1] < b[1]
    \/ a[1] = b[1] /\ a[2] < b[2]
    \/ a[1] = b[1] /\ a[2] = b[2] /\ a[3] <= b[3]

\* the identifiers (token pos of the message) named by the diagnostics of one key, in list order
NamedBy(key, pos) ==
    LET hits == SelectIdx(result.errors, LAMBDA i : DiagKey(result.errors[i]) = key)
    IN [i \in DOMAIN hits |-> hits[i].message[pos].t]

\* named is list restricted to the identifiers it names, order and repetitions kept
InOrderOf(named, list) ==
    named = SelectIdx(list, LAMBDA i : list[i] \in Range(named))

\* C11: the diagnostics are ordered: structural errors, then per pipeline in
\* declaration order its undefined-receiver, undefined-processor and
\* undefined-exporter errors (each in list order) and its no-receivers and
\* no-exporters warnings, then undefined-extension errors, then the unused
\* warnings of receivers, processors, exporters, extensions in catalog order.
C11_Ordered ==
    pc = "parsed" =>
        /\ \A i, j \in DOMAIN result.errors :
              i < j => KeyLeq(DiagKey(result.errors[i]), DiagKey(result.errors[j]))
        /\ \A i \in DOMAIN result.pipelines :
              /\ InOrderOf(NamedBy(<<2, i, 1>>, 4), result.pipelines[i].receivers)
              /\ InOrderOf(NamedBy(<<2, i, 2>>, 4), result.pipelines[i].processors)
              /\ InOrderOf(NamedBy(<<2, i, 3>>, 4), result.pipelines[i].exporters)
        /\ InOrderOf(NamedBy(<<3, 0, 0>>, 2), result.enabledExtensions)
        /\ InOrderOf(NamedBy(<<4, 0, 0>>, 2), [i \in DOMAIN result.receivers |-> result.receivers[i].fullName])
        /\ InOrderOf(NamedBy(<<5, 0, 0>>, 2), [i \in DOMAIN result.processors |-> result.processors[i].fullName])
        /\ InOrderOf(NamedBy(<<6, 0, 0>>, 2), [i \in DOMAIN result.exporters |-> result.exporters[i].fullName])
        /\ InOrderOf(NamedBy(<<7, 0, 0>>, 2), [i \in DOMAIN result.extensions |-> result.extensions[i].fullName])

\* a pipeline with reference errors and a warning, an undefined extension, unused warnings
C11_Witness ==
    /\ pc = "parsed"
    /\ \E i \in DOMAIN result.pipelines :
          /\ NamedBy(<<2, i, 1>>, 4) # <<>>
          /\ NamedBy(<<2, i, 2>>, 4) # <<>>
          /\ \E k \in DOMAIN result.errors : DiagKey(result.errors[k]) = <<2, i, 5>>
    /\ NamedBy(<<3, 0, 0>>, 2) # <<>>
    /\ NamedBy(<<4, 0, 0>>, 2) # <<>>
    /\ NamedBy(<<7, 0, 0>>, 2) # <<>>

\* two pipelines with diagnostics each, and a list with two undefined references
C11_WitnessPipelines ==
    /\ pc = "parsed"
    /\ Len(result.pipelines) = 2
    /\ Len(NamedBy(<<2, 1, 1>>, 4)) = 1
    /\ Len(NamedBy(<<2, 2, 3>>, 4)) = 1

\* C12: when the parser reports errors, the result holds one error-severity
\* diagnostic per reported error and nothing else, every catalog, the pipeline
\* list and the enabled-extension list are empty, rawConfig is null, isValid
\* is false, and the graph of that result has no node and no edge.
C12_SyntaxFailure ==
    (input.kind = "syntax" /\ pc # "start") =>
        /\ pc # "raised"
        /\ Len(result.errors) = input.nerr
        /\ \A i \in DOMAIN result.errors : result.errors[i].severity = "error"
        /\ \A i, j \in DOMAIN result.errors : result.errors[i] = result.errors[j] => i = j
        /\ result.receivers = <<>> /\ result.processors = <<>> /\ result.exporters = <<>>
        /\ result.connectors = <<>> /\ result.extensions = <<>>
        /\ result.pipelines = <<>> /\ result.enabledExtensions = <<>>
        /\ result.rawConfig = "null"
        /\ ~result.isValid
        /\ pc = "built" => (graph.nodes = <<>> /\ graph.edges = <<>>)

C12_Witness == input.kind = "syntax" /\ input.nerr = 2 /\ pc = "built" /\ calls = 2

\* the line of the service key in the text: one line per section key and per
\* entry of the sections before it
ServiceKeyLine(config) ==
    LET RECURSIVE Before(_)
        Before(i) ==
            IF i > Len(SectionNames) THEN 0
            ELSE (IF config[SectionNames[i]].kind = "absent" THEN 0
                  ELSE 1 + ValueLines(config[SectionNames[i]])) + Before(i + 1)
    IN 1 + Before(1)

ExpectedMissingPipelines(config) ==
    [message |-> <<T("Missing required "), Q("service.pipelines"), T(" section")>>,
     severity |-> "error", line |-> ServiceKeyLine(config), column |-> NoLine, path |-> NoPath]

ExpectedUndefinedExtension(id) ==
    <<T("Service references undefined extension "), Q(id)>>

\* what follows a missing service.pipelines: its one error at the service key's
\* line, no pipeline, the enabled-extension check, the unused warnings
MissingPipelinesContinues ==
    /\ Occurrences(result.errors, ExpectedMissingPipelines(input.config)) = 1
    /\ Cardinality({ k \in DOMAIN result.errors : DiagGroup(result.errors[k]) = 1 }) = 1
    /\ result.pipelines = <<>>
    /\ \A id \in Identifiers :
          Cardinality({ k \in DOMAIN result.errors :
                          result.errors[k].message = ExpectedUndefinedExtension(id) })
            = IF id \in FullNames(result.extensions) THEN 0
              ELSE Occurrences(result.enabledExtensions, id)
    /\ UnusedRule
    /\ \A i \in DOMAIN result.receivers : Referencing("receivers", result.receivers[i]) # {}
    /\ \A i \in DOMAIN result.processors : Referencing("processors", result.processors[i]) # {}
    /\ \A i \in DOMAIN result.exporters : Referencing("exporters", result.exporters[i]) # {}

\* C13 as stated: when the service key exists but has no pipelines sub-section,
\* there is exactly one error 'Missing required "service.pipelines" section' at
\* the service key's line and validation goes on: no pipeline, the
\* enabled-extension check runs, every defined receiver, processor and exporter
\* gets its unused warning.
C13_MissingPipelinesAnyService ==
    (/\ pc = "parsed"
     /\ input.kind = "mapping"
     /\ input.config.service.kind # "absent"
     /\ input.config.service.pipelines.kind = "absent")
    => MissingPipelinesContinues

\* the same for a service section with a non-null value whose pipelines
\* sub-section is absent or null; a service key with a null value is reported
\* as a missing service section and validation stops there
C13_MissingPipelinesContinue ==
    (pc = "parsed" /\ input.kind = "mapping") =>
        /\ (/\ input.config.service.kind \in {"map", "seq", "scalar"}
            /\ input.config.service.pipelines.kind \in {"absent", "null"})
           => MissingPipelinesContinues
        /\ input.config.service.kind = "null" => result.errors = <<MissingService>>

ExpectedNotEnabled(c) ==
    [message |-> <<T("Extension "), Q(c.fullName), T(" is defined but not enabled in service.extensions")>>,
     severity |-> "warning", line |-> c.lineNumber, column |-> NoLine,
     path |-> "extensions." \o c.fullName]

\* the undefined-extension errors naming id
UndefinedExtensionErrors(id) ==
    { k \in DOMAIN result.errors :
        /\ result.errors[k].message = ExpectedUndefinedExtension(id)
        /\ result.errors[k].severity = "error"
        /\ result.errors[k].path = "service.extensions" }

\* one error per enabled identifier that is not defined, one warning per
\* defined extension that is not enabled, nothing for one defined and enabled
ExtensionRule ==
    /\ \A id \in Identifiers :
          /\ Cardinality(UndefinedExtensionErrors(id))
               = IF id \in FullNames(result.extensions) THEN 0
                 ELSE Occurrences(result.enabledExtensions, id)
          /\ \A k \in DOMAIN result.errors :
                result.errors[k].message = ExpectedUndefinedExtension(id) => k \in UndefinedExtensionErrors(id)
    /\ \A i \in DOMAIN result.extensions :
          LET c == result.extensions[i]
          IN IF c.fullName \in Range(result.enabledExtensions)
             THEN \A k \in DOMAIN result.errors : ~Includes(result.errors[k].message, c.fullName)
             ELSE /\ Cardinality(Referencing("extensions", c)) = 1
                  /\ \A k \in DOMAIN result.errors :
                        Includes(result.errors[k].message, c.fullName)
                          => result.errors[k] = ExpectedNotEnabled(c)

\* C14 as stated: one error 'Service references undefined extension "<id>"'
\* (path service.extensions) per enabled identifier that is not in the
\* extension catalog, one warning 'Extension "<id>" is defined but not enabled
\* in service.extensions' per catalog entry that is not enabled, and no
\* diagnostic for an extension that is defined and enabled.
C14_ExtensionsAlways == pc = "parsed" => ExtensionRule

\* C14 as amended: the same, for the documents whose service section is
\* present and truthy; when the service section is missing or null no
\* extension diagnostic is emitted at all.
C14_ExtensionsWhenServicePresent ==
    pc = "parsed" =>
        IF input.config.service.kind \in {"absent", "null"}
        THEN \A k \in DOMAIN result.errors : DiagGroup(result.errors[k]) \notin {3, 7}
        ELSE ExtensionRule

C14_Witness ==
    /\ pc = "parsed"
    /\ FullNames(result.extensions) = {"health", "zpages"}
    /\ result.enabledExtensions = <<"zpages", "pprof">>
    /\ Cardinality(UndefinedExtensionErrors("pprof")) = 1
    /\ Occurrences(result.errors, ExpectedNotEnabled(result.extensions[1])) = 1
    /\ \A k \in DOMAIN result.errors : ~Includes(result.errors[k].message, "zpages")

\* an undefined extension enabled twice
C14_WitnessTwice ==
    /\ pc = "parsed"
    /\ result.enabledExtensions = <<"pprof", "pprof">>
    /\ Cardinality(UndefinedExtensionErrors("pprof")) = 2

\* the records extracted for a section are one per key of a mapping, none otherwise
ExtractedLikeMapping(section, components) ==
    IF section.kind = "map"
    THEN [i \in DOMAIN components |-> components[i].fullName] = section.keys
    ELSE components = <<>>

\* C15: extractComponents returns the empty list when the section is absent or
\* is not a mapping (a scalar, a sequence) and one record per top-level key
\* otherwise; extractPipelines returns the empty list when service or its
\* pipelines sub-section is absent or not a mapping and one record per
\* pipeline key otherwise; neither raises.
C15_ExtractMappingsOnly ==
    (input.kind = "mapping" /\ pc # "start") =>
        /\ pc # "raised"
        /\ ExtractedLikeMapping(input.config.receivers, result.receivers)
        /\ ExtractedLikeMapping(input.config.processors, result.processors)
        /\ ExtractedLikeMapping(input.config.exporters, result.exporters)
        /\ ExtractedLikeMapping(input.config.connectors, result.connectors)
        /\ ExtractedLikeMapping(input.config.extensions, result.extensions)
        /\ IF input.config.service.kind = "map" /\ input.config.service.pipelines.kind = "map"
           THEN [i \in DOMAIN result.pipelines |-> result.pipelines[i].name]
                  = [i \in DOMAIN input.config.service.pipelines.items |->
                       input.config.service.pipelines.items[i].name]
           ELSE result.pipelines = <<>>

-----------------------------------------------------------------------------
(* Claims about the validation hook and the server-side validator *)

\* the messages of a list of diagnostics
MessagesOf(errors) == { errors[i].message : i \in DOMAIN errors }

\* the binary errors that repeat no message of the core's diagnostics, in their order
NewBinaryErrors ==
    SelectIdx(binaryResult.errors,
              LAMBDA i : binaryResult.errors[i].message \notin MessagesOf(result.errors))

\* C16: the list validateConfig of the hook returns is the core's diagnostics,
\* unchanged and in their order, followed by exactly the binary errors whose
\* message equals no core diagnostic message, in the binary's order; a binary
\* error whose message equals a core message is skipped.
C16_MergedByMessage ==
    pc = "merged" =>
        /\ SubSeq(merged.errors, 1, Len(result.errors)) = result.errors
        /\ SubSeq(merged.errors, Len(result.errors) + 1, Len(merged.errors)) = NewBinaryErrors
        /\ Len(merged.errors) >= Len(result.errors)

\* one binary error skipped for its message, another appended
C16_Witness ==
    /\ pc = "merged"
    /\ \E i \in DOMAIN binaryResult.errors :
          binaryResult.errors[i].message \in MessagesOf(result.errors)
    /\ Len(merged.errors) > Len(result.errors)
    /\ Len(merged.errors) < Len(result.errors) + Len(binaryResult.errors)

C17_WitnessValidBinary ==
    /\ pc = "merged"
    /\ ~result.isValid
    /\ binaryResult.isValid
    /\ ~merged.isValid

\* the binary gave no verdict: the request failed, the server has no binary,
\* or the run failed (non-zero exit, timeout) and left no line a pattern reads
BinaryFailedEntirely ==
    \/ api.mode \in {"api_failed", "fallback"}
    \/ api.mode = "binary" /\ ~api.run.ok /\ parseOtelErrors(api.run.lines) = <<>>

\* C18: when the binary invocation fails entirely (binary absent, timeout,
\* non-zero exit without parseable output, or the request itself failing),
\* nothing raises and the merged diagnostics and validity are those of
\* parseOTelConfig on the same text.
C18_FailureFallsBackToCore ==
    /\ pc # "raised"
    /\ (pc = "merged" /\ BinaryFailedEntirely) =>
          /\ merged.errors = result.errors
          /\ merged.isValid = result.isValid

\* the part of C18 that does not depend on the raise of parseOTelConfig
C18_MergedEqualsCore ==
    (pc = "merged" /\ BinaryFailedEntirely) =>
        /\ merged.errors = result.errors
        /\ merged.isValid = result.isValid

\* the answer of validateWithFallback is in binaryResult
FallbackAnswered == api.mode = "fallback" /\ input.kind = "mapping"

\* the error validateWithFallback pushes for an undefined reference of a pipeline
ServerUndefined(pipelineName, kind, ref) ==
    <<T("Pipeline "), Q(pipelineName), T(" references undefined " \o kind \o " "), Q(ref)>>

ServerUndefinedExtension(ref) == <<T("Service references undefined extension "), Q(ref)>>

\* the number of errors of the answer with one message
ErrorsWith(message) ==
    Cardinality({ i \in DOMAIN binaryResult.errors : binaryResult.errors[i].message = message })

\* the references a pipeline entry of the text lists under one key
ListedRefs(entry, list) ==
    IF entry.kind = "map" /\ entry[list].kind = "seq" THEN entry[list].keys ELSE <<>>

\* the pipelines and the enabled extensions written in the text
WrittenPipelines ==
    IF input.config.service.kind = "map" /\ input.config.service.pipelines.kind = "map"
    THEN input.config.service.pipelines.items ELSE <<>>

WrittenExtensions ==
    IF input.config.service.kind = "map" /\ input.config.service.extensions.kind = "seq"
    THEN input.config.service.extensions.keys ELSE <<>>

DefinedIn(section, ref) == section.kind = "map" /\ ref \in Range(section.keys)

ListKinds == { <<"receivers", "receiver">>, <<"processors", "processor">>, <<"exporters", "exporter">> }

\* the undefined references of the text: <<message, occurrences>>
UndefinedReferences ==
    { <<ServerUndefined(WrittenPipelines[x[1]].name, x[2][2], x[3]),
        Occurrences(ListedRefs(WrittenPipelines[x[1]], x[2][1]), x[3])>> :
        x \in { y \in (DOMAIN WrittenPipelines) \X ListKinds \X Identifiers :
                  ~DefinedIn(input.config[y[2][1]], y[3]) } }
    \cup { <<ServerUndefinedExtension(ref), Occurrences(WrittenExtensions, ref)>> :
             ref \in { r \in Identifiers : ~DefinedIn(input.config.extensions, r) } }

\* C19: validateWithFallback answers every reference of a pipeline to a
\* receiver, processor or exporter that is not a key of its own section, and
\* every identifier of service.extensions that is not a key of extensions,
\* with isValid = false and one error per offending reference whose message
\* names the kind and the identifier.
C19_FallbackReportsUndefined ==
    FallbackAnswered =>
        \A u \in UndefinedReferences :
            u[2] > 0 => /\ ~binaryResult.isValid
                        /\ ErrorsWith(u[1]) = u[2]

\* every reference of the text is defined in its own section
AllReferencesDefined == \A u \in UndefinedReferences : u[2] = 0

HasPipelinesSection ==
    /\ input.config.service.kind = "map"
    /\ Truthy(input.config.service.pipelines)

\* C20: validateWithFallback answers isValid = true with no error for every
\* text with a service.pipelines section whose references and enabled
\* extensions are all defined in their own sections, for any number of
\* pipelines; isValid is true exactly when the error list is empty.
C20_FallbackAcceptsDefined ==
    api.mode = "fallback" =>
        /\ binaryResult.isValid <=> binaryResult.errors = <<>>
        /\ (input.kind = "mapping" /\ HasPipelinesSection /\ AllReferencesDefined)
              => (binaryResult.isValid /\ binaryResult.errors = <<>>)

\* the last half of C20 alone: validity is the emptiness of the error list
C20_ValidIffNoErrors ==
    api.mode = "fallback" => (binaryResult.isValid <=> binaryResult.errors = <<>>)

-----------------------------------------------------------------------------
(* validateWithFallback called on a text, as its tests call it *)

\* validateWithFallback(configYaml) resolves
CallFallback ==
    /\ pc = "start"
    /\ binaryResult' = validateWithFallback(input)
    /\ api' = [mode |-> "direct", run |-> NoRun]
    /\ pc' = "answered"
    /\ UNCHANGED <<input, result, graph, prevGraph, edgeCounter, calls, merged, reading, requests, isValidating>>

FallbackNext == CallFallback

FallbackSpec == HookInit /\ [][FallbackNext]_vars

\* some error of the answer has a message that starts with the given text
AnsweredWith(prefix) ==
    \E i \in DOMAIN binaryResult.errors :
        LET m == binaryResult.errors[i].message
        IN Len(m) >= Len(prefix) /\ SubSeq(m, 1, Len(prefix)) = prefix

\* the text has no service section: a mapping without the key, a scalar, a sequence
WithoutServiceSection ==
    /\ input.kind \in {"mapping", "scalar", "sequence"}
    /\ ParsedConfig(input).service.kind = "absent"

C21_WitnessNoService ==
    /\ api.mode = "direct"
    /\ pc = "answered"
    /\ input.kind = "mapping"
    /\ WithoutServiceSection
    /\ ~binaryResult.isValid
    /\ AnsweredWith(<<T("Missing required "), Q("service"), T(" section")>>)

\* the edges of a pipeline's row between two of its consecutive stages, from stage j on
ChainFrom(p, j) ==
    { k \in IntraEdges(p) :
        \E s \in j..(Len(Stages(p)) - 1) :
            graph.edges[k].source = Stages(p)[s] /\ graph.edges[k].target = Stages(p)[s + 1] }

\* C22: in a pipeline with two or more receivers only the node of the
\* last-declared receiver has an outgoing intra-pipeline edge, to the first
\* processor node or, without processors, the first exporter node; no other
\* receiver node of the pipeline is the source of an intra-pipeline edge, and
\* processors and exporters are linked as a straight sequential chain.
C22_LastReceiverFansIn ==
    pc = "built" =>
        \A i \in DOMAIN result.pipelines :
            LET p == result.pipelines[i]
                stages == Stages(p)
                last == Len(p.receivers)
            IN last >= 2 =>
                  /\ \A j \in 1..(last - 1) : \A k \in IntraEdges(p) : graph.edges[k].source # stages[j]
                  /\ IntraEdges(p) = ChainFrom(p, last)
                  /\ \A s \in last..(Len(stages) - 1) :
                        \E k \in IntraEdges(p) :
                            graph.edges[k].source = stages[s] /\ graph.edges[k].target = stages[s + 1]

\* the component nodes of the graph (not the row labels)
ComponentNodes == { k \in DOMAIN graph.nodes : graph.nodes[k].type = "pipeline" }

\* the natural path of a component node: <catalog>.<identifier>
NaturalPath(n) == n.componentType \o "s." \o n.label

\* some diagnostic has the node's natural path, or names its identifier in double quotes
Correlated(n) ==
    \E i \in DOMAIN result.errors :
        \/ result.errors[i].path = NaturalPath(n)
        \/ \E t \in DOMAIN result.errors[i].message : result.errors[i].message[t] = Q(n.label)

\* the node drawn for the k-th reference of a list of a pipeline
SlotNodes(p, kind, ref) ==
    { k \in ComponentNodes : graph.nodes[k].id = p.id \o "-" \o kind \o "-" \o ref }

\* C23: every component node whose natural path (receivers.<id>,
\* processors.<id>, exporters.<id>, connectors.<id>, extensions.<id>) is the
\* path of a diagnostic, or whose identifier stands in double quotes in a
\* diagnostic's message, has hasError = true; a pipeline reference to an
\* undefined component is drawn as a node in its slot with config undefined
\* and hasError = true.
C23_CorrelatedFlagged ==
    pc = "built" =>
        /\ \A k \in ComponentNodes : Correlated(graph.nodes[k]) => graph.nodes[k].hasError
        /\ \A i \in DOMAIN result.pipelines : \A ref \in Identifiers :
              \A kind \in {"receiver", "processor", "exporter"} :
                  LET p == result.pipelines[i]
                  IN Occurrences(result.errors, ExpectedUndefined(p, kind, ref)) > 0 =>
                        /\ SlotNodes(p, kind, ref) # {}
                        /\ \A k \in SlotNodes(p, kind, ref) :
                              graph.nodes[k].config = Undefined /\ graph.nodes[k].hasError

\* an undefined exporter drawn flagged, and an unused receiver's warning path met by a node
C23_Witness ==
    /\ pc = "built"
    /\ \E i \in DOMAIN result.pipelines : \E ref \in Identifiers :
          /\ Occurrences(result.errors, ExpectedUndefined(result.pipelines[i], "exporter", ref)) > 0
          /\ \E k \in SlotNodes(result.pipelines[i], "exporter", ref) :
                graph.nodes[k].config = Undefined /\ graph.nodes[k].hasError

\* a node flagged for a diagnostic with its natural path
C23_WitnessPath ==
    /\ pc = "built"
    /\ \E k \in ComponentNodes : \E i \in DOMAIN result.errors :
          result.errors[i].path = NaturalPath(graph.nodes[k]) /\ graph.nodes[k].hasError

\* the index in graph.nodes of the label node of the i-th pipeline (1-based)
RECURSIVE RowStart(_)
RowStart(i) ==
    IF i = 1 THEN 1 ELSE RowStart(i - 1) + 1 + Len(Stages(result.pipelines[i - 1]))

\* the index of the first node after the pipeline rows
TrailingStart ==
    IF result.pipelines = <<>> THEN 1
    ELSE RowStart(Len(result.pipelines)) + 1 + Len(Stages(result.pipelines[Len(result.pipelines)]))

\* C24: the component nodes of the i-th pipeline (0-based, declaration order)
\* all have y = 100 + 180*i and the k-th node of the row, receivers then
\* processors then exporters, has x = 50 + 200*k; the row's label node is at
\* x = 20, 40 above the row; unused connectors and extensions lie in rows with
\* y greater than that of every pipeline row; no two component nodes have the
\* same (x, y) position.
C24_GridLayout ==
    pc = "built" =>
        /\ \A i \in DOMAIN result.pipelines :
              LET stages == Stages(result.pipelines[i])
                  start == RowStart(i)
              IN /\ start + Len(stages) <= Len(graph.nodes)
                 /\ graph.nodes[start].type = "pipelineLabel"
                 /\ graph.nodes[start].x = 20
                 /\ graph.nodes[start].y = 100 + 180 * (i - 1) - 40
                 /\ \A k \in DOMAIN stages :
                       /\ graph.nodes[start + k].id = stages[k]
                       /\ graph.nodes[start + k].x = 50 + 200 * (k - 1)
                       /\ graph.nodes[start + k].y = 100 + 180 * (i - 1)
        /\ \A k \in TrailingStart..Len(graph.nodes) :
              /\ graph.nodes[k].componentType \in {"label", "connector", "extension"}
              /\ graph.nodes[k].type = "pipeline" =>
                    \A i \in DOMAIN result.pipelines : graph.nodes[k].y > 100 + 180 * (i - 1)
        /\ \A k, l \in ComponentNodes :
              (graph.nodes[k].x = graph.nodes[l].x /\ graph.nodes[k].y = graph.nodes[l].y) => k = l

\* two pipeline rows, an unused connector and an extension below them
C24_Witness ==
    /\ pc = "built"
    /\ Len(result.pipelines) = 2
    /\ \E i \in DOMAIN result.pipelines : Len(Stages(result.pipelines[i])) >= 2
    /\ \E k, l \in TrailingStart..Len(graph.nodes) :
          /\ graph.nodes[k].componentType = "connector"
          /\ graph.nodes[l].componentType = "extension"
          /\ graph.nodes[k].y < graph.nodes[l].y

\* the line of the key token of the last segment of a path in the text, NoLine if the path does not exist
RECURSIVE KeyLine(_, _)
KeyLine(node, path) ==
    IF path = <<>> \/ ~node.hasItems THEN NoLine
    ELSE LET hits == { k \in DOMAIN node.items :
                         node.items[k].hasKey /\ node.items[k].key = Head(path) }
         IN IF hits = {} THEN NoLine
            ELSE LET pair == node.items[CHOOSE k \in hits : \A j \in hits : k <= j]
                 IN IF Len(path) = 1 THEN pair.line ELSE KeyLine(pair.value, Tail(path))

\* the paths looked up: sections, their entries, the service keys, the pipelines
LookedUpPaths ==
    { <<s>> : s \in Range(SectionNames) \cup {"service"} }
    \cup { <<s, id>> : s \in Range(SectionNames), id \in {"otlp", "fwd", "debug", "receivers", "0"} }
    \cup { <<"service", k>> : k \in {"pipelines", "extensions", "telemetry"} }
    \cup { <<"service", "pipelines", name>> : name \in Range(PipelineNames) \cup {"pipelines", "0"} }

\* C25: getLineNumber(doc, path) returns the 1-based line of the key token of
\* the last path segment whenever every segment exists as a key of the nested
\* mappings, also when the same key text occurs at more than one level of the
\* path, and returns undefined, without raising, when a segment is absent or
\* an intermediate node is not a mapping.
C25_LineOfKey ==
    (pc = "parsed" /\ input.kind = "mapping") =>
        /\ \A path \in LookedUpPaths :
              getLineNumber(Document(input), path) = KeyLine(DocContents(input.config), path)
        /\ \A i \in DOMAIN result.pipelines :
              result.pipelines[i].lineNumber
                = KeyLine(DocContents(input.config), <<"service", "pipelines", result.pipelines[i].name>>)

-----------------------------------------------------------------------------
(* The state machine of the Home page: the text of the editor and the       *)
(* ParseResult handed to the visualization, under edits, resets, uploads    *)
(* and Validate clicks.                                                      *)

\* sampleConfig, over the explored identifiers: every section defined, one
\* extension enabled, one pipeline with a receiver, a processor and an exporter
sampleConfig ==
    Mapping(Config(MapOf(<<"otlp">>), MapOf(<<"batch">>), MapOf(<<"debug">>), Absent,
                   MapOf(<<"zpages", "pprof">>),
                   Service([kind |-> "map",
                            items |-> AddRef(AddRef(AddRef(BarePipelines(1), 1, <<"receivers", "otlp">>),
                                                    1, <<"processors", "batch">>),
                                             1, <<"exporters", "debug">>)],
                           SeqOf(<<"zpages">>))))

\* the texts typed into the editor or read from a file: every kind of text,
\* and documents without service, without pipelines and with an undefined reference
HomeTexts ==
    { sampleConfig }
    \cup (OtherInputs \ { Text("nonstring") })
    \cup { Mapping([sampleConfig.config EXCEPT !.service = sv]) :
             sv \in { NoService, Service(NoPipelines, Absent),
                      Service([kind |-> "map",
                               items |-> AddRef(BarePipelines(1), 1, <<"receivers", "fwd">>)],
                              Absent) } }

\* setParseResult(parseOTelConfig(text)): a call that throws leaves the state as it was
SetParseResult(text) ==
    \E r \in { parseOTelConfig(text) } :
       /\ result' = IF r.raised THEN result ELSE r.value
       /\ pc' = IF r.raised THEN "raised" ELSE "parsed"

\* useState(sampleConfig), useState(() => parseOTelConfig(sampleConfig))
HomeInit ==
    /\ input = sampleConfig
    /\ pc = "parsed"
    /\ result = parseOTelConfig(sampleConfig).value
    /\ graph = EmptyGraph
    /\ prevGraph = EmptyGraph
    /\ edgeCounter = 0
    /\ calls = 0
    /\ api = NoRequest
    /\ binaryResult = NoBinaryResult
    /\ merged = EmptyResult
    /\ reading = {}
    /\ requests = <<>>
    /\ isValidating = FALSE

\* handleEditorChange(value): the text is stored, then parsed
handleEditorChange ==
    /\ \E content \in HomeTexts :
          /\ input' = content
          /\ SetParseResult(content)
    /\ UNCHANGED <<graph, prevGraph, edgeCounter, calls, api, binaryResult, merged, reading, requests, isValidating>>

\* handleReset()
handleReset ==
    /\ input' = sampleConfig
    /\ SetParseResult(sampleConfig)
    /\ UNCHANGED <<graph, prevGraph, edgeCounter, calls, api, binaryResult, merged, reading, requests, isValidating>>

\* handleUpload(): a file is chosen and reader.readAsText(file) starts
handleUpload ==
    /\ Cardinality(reading) < MaxReading
    /\ \E file \in HomeTexts \ reading : reading' = reading \cup { file }
    /\ UNCHANGED <<input, pc, result, graph, prevGraph, edgeCounter, calls, api, binaryResult, merged, requests, isValidating>>

\* reader.onload of a read in flight: the file's text is stored, then parsed
ReaderOnload ==
    /\ \E content \in reading :
          /\ reading' = reading \ { content }
          /\ input' = content
          /\ SetParseResult(content)
    /\ UNCHANGED <<graph, prevGraph, edgeCounter, calls, api, binaryResult, merged, requests, isValidating>>

\* the Validate button: setParseResult(parseOTelConfig(yamlContent))
ValidateClick ==
    /\ SetParseResult(input)
    /\ UNCHANGED <<input, graph, prevGraph, edgeCounter, calls, api, binaryResult, merged, reading, requests, isValidating>>

HomeNext == handleEditorChange \/ handleReset \/ handleUpload \/ ReaderOnload \/ ValidateClick

HomeSpec == HomeInit /\ [][HomeNext]_vars

\* C26: in the Home page, after any sequence of editor changes, resets, file
\* uploads (also one whose read completes after later edits) and Validate
\* clicks, the displayed parseResult is parseOTelConfig of the current editor
\* text: no stale result is displayed.
C26_DisplayedIsCurrent ==
    \E r \in { parseOTelConfig(input) } : ~r.raised /\ result = r.value

-----------------------------------------------------------------------------
(* Claims about the identifiers of the drawn elements *)

\* C27: within one generateFlowElements call the ids of the produced nodes are
\* pairwise distinct and the ids of the produced edges are pairwise distinct,
\* for every ParseResult parseOTelConfig returns.
C27_DistinctIds ==
    pc = "built" =>
        /\ \A j, k \in DOMAIN graph.nodes : graph.nodes[j].id = graph.nodes[k].id => j = k
        /\ \A j, k \in DOMAIN graph.edges : graph.edges[j].id = graph.edges[k].id => j = k

\* C28: a node has hasError = true only if some diagnostic correlates with it
\* (its path is the node's natural path, or its message quotes the node's
\* identifier); a node of any kind, extension nodes included, without such a
\* diagnostic is never flagged, and without diagnostics no node is flagged.
C28_FlaggedOnlyIfCorrelated ==
    pc = "built" =>
        \A k \in ComponentNodes : graph.nodes[k].hasError => Correlated(graph.nodes[k])

-----------------------------------------------------------------------------
(* The state machine of one mounted useOtelValidation hook: calls of         *)
(* validateWithBinary that overlap, their answers arriving in any order.     *)

\* the texts handed to validateWithBinary: a valid document, one without
\* service, and a text with a syntax error
RaceTexts ==
    { sampleConfig, Mapping([sampleConfig.config EXCEPT !.service = NoService]),
      [kind |-> "syntax", nerr |-> 1, config |-> EmptyConfig, indent |-> 2] }

\* what a call of validateWithBinary(config) ends with: the client-side result
\* when mutateAsync rejects, else the answer of the server's validateOtelConfig
Answers(config) ==
    { ClientFallbackResult(config), validateOtelConfig(config, FALSE, NoRun) }
    \cup { validateOtelConfig(config, TRUE, run) : run \in BinaryRuns }

\* validateWithBinary(config) up to the await: the mutation starts, onMutate runs
StartRequest ==
    /\ Len(requests) < MaxRequests
    /\ \E config \in RaceTexts : \E answer \in Answers(config) :
          requests' = Append(requests, [config |-> config, answer |-> answer, pending |-> TRUE])
    /\ isValidating' = TRUE
    /\ UNCHANGED <<input, pc, result, graph, prevGraph, edgeCounter, calls, api, binaryResult, merged, reading>>

\* a mutation settles: onSettled runs, then validateWithBinary resumes after
\* the await (or in its catch block) and calls setBinaryResult
SettleRequest ==
    /\ \E i \in DOMAIN requests :
          /\ requests[i].pending
          /\ requests' = [requests EXCEPT ![i].pending = FALSE]
          /\ binaryResult' = requests[i].answer
    /\ isValidating' = FALSE
    /\ UNCHANGED <<input, pc, result, graph, prevGraph, edgeCounter, calls, api, merged, reading>>

\* useState(false), useState(null): no call made yet, the page as first rendered
RaceInit == HomeInit

RaceNext == StartRequest \/ SettleRequest

RaceSpec == RaceInit /\ [][RaceNext]_vars

\* the requests still in flight
InFlight == { i \in DOMAIN requests : requests[i].pending }

\* C29: in useOtelValidation, under every interleaving of overlapping
\* validateWithBinary calls and their completions, isValidating is true while
\* at least one request is in flight and false once all have settled, and
\* after all have settled binaryResult is the result of the request that
\* started last.
C29_LatestRequestWins ==
    /\ isValidating <=> (InFlight # {})
    /\ (requests # <<>> /\ InFlight = {}) => binaryResult = requests[Len(requests)].answer

-----------------------------------------------------------------------------
(* Claims relating the server-side fallback to the client-side validation *)

\* C30: for every text that decodes to a mapping, validateWithFallback answers
\* isValid = true exactly when parseOTelConfig does (documents that list
\* connectors as receivers or exporters included), so merging a fallback
\* answer never marks invalid a document the client-side validation accepts.
C30_FallbackAgreesWithCore ==
    (pc \in {"answered", "merged"} /\ api.mode = "fallback" /\ input.kind = "mapping") =>
        /\ binaryResult.isValid <=> result.isValid
        /\ pc = "merged" /\ result.isValid => merged.isValid

====
